---- MODULE Spec2Model ----
(***************************************************************************)
(* Model of the Exely booking assistant (Bdata0/Exely_MCP).                *)
(*                                                                         *)
(*   app/mcp_tools/tools.py   the tool functions and the two module-level  *)
(*                            caches BOOKING_OPTIONS_CACHE and             *)
(*                            HOTEL_INFO_CACHE                             *)
(*   telegram_bot.py          the per-user session dictionary user_states  *)
(*                            and the turn handlers                        *)
(*   app/main.py              registers the tool functions as MCP tools    *)
(*                                                                         *)
(* Three specifications share the variables:                               *)
(*   MapperSpec  create_exely_reservation_and_get_link applied to every    *)
(*               offer of a bounded part of the availability schema        *)
(*   Spec        the bot: one turn handler per action                      *)
(*   HotelSpec   get_hotel_details_from_api against a clock                *)
(*                                                                         *)
(* Python None is NoneVal for strings and the empty set for Optional[int]. *)
(***************************************************************************)
EXTENDS Integers, Sequences, FiniteSets, TLC

VARIABLES
    BOOKING_OPTIONS_CACHE,  \* tools.py:46   option_id -> RoomStayAvailability
    puts,                   \* number of stores into BOOKING_OPTIONS_CACHE so far
    lastCall,               \* the reservation tool's invocation in the latest step, if any
    user_states,            \* telegram_bot.py:87   the session of the user
    lastTurn,               \* what the bot turn of the latest step did, if it was one
    HOTEL_INFO_CACHE,       \* tools.py:47   hotel_code -> entry with _cached_at_ts
    now,                    \* datetime.now().timestamp(), in seconds
    ticks,                  \* number of advances of the clock so far
    lastHotelCall,          \* the latest call of get_hotel_details_from_api and its outcome
    hotelCalls,             \* the calls of get_hotel_details_from_api suspended at an await
    LLM_DIALOG_HISTORY_LENGTH,  \* config.py:28   settings.LLM_DIALOG_HISTORY_LENGTH
    llm_dialog_turns,       \* telegram_bot.py:97   the dialog history of the user
    offered,                \* the entries given to add_to_dialog_history since the last /start
    providerFailure,        \* a failure of the provider, with the error text of each of two runs
    userMessages,           \* the message each of the two runs sends the user for it
    clientCall,             \* the latest call of the provider client: the answer of
                            \* the HTTP layer and what the operation made of it
    dispatch,               \* bot.polling: the updates Telegram holds for the bot, the
                            \* handler in execution and where it is suspended
    lastSearch,             \* the latest call of get_exely_booking_options by an MCP
                            \* client: its parameters and the options it returned
    clients                 \* the provider clients made by get_exely_client and not
                            \* closed yet, and the tool call that ran last

offerVars == <<BOOKING_OPTIONS_CACHE, puts, lastCall>>
botVars == <<user_states, lastTurn>>
hotelVars == <<HOTEL_INFO_CACHE, now, ticks, lastHotelCall, hotelCalls>>
historyVars == <<LLM_DIALOG_HISTORY_LENGTH, llm_dialog_turns, offered>>
failureVars == <<providerFailure, userMessages, clientCall>>
pollingVars == <<dispatch>>
searchVars == <<lastSearch>>
clientVars == <<clients>>
vars == <<BOOKING_OPTIONS_CACHE, puts, lastCall, user_states, lastTurn,
          HOTEL_INFO_CACHE, now, ticks, lastHotelCall, hotelCalls,
          LLM_DIALOG_HISTORY_LENGTH, llm_dialog_turns, offered,
          providerFailure, userMessages, clientCall, dispatch, lastSearch,
          clients>>

NoneVal == "None"

(***************************************************************************)
(* Bounds of the model.                                                    *)
(***************************************************************************)
MaxCount == 2        \* largest count of one guest group of an offer
MaxPlacements == 2   \* most placements of an offer's room type
MaxGroups == 2       \* most guest groups of an offer
MaxGuests == 3       \* longest guest list handed to the reservation tool
MaxClockTicks == 3   \* most advances of the clock in HotelSpec
MaxOpenClients == 2  \* most provider clients left open in ClientLifeSpec
MaxPuts == 2         \* most offers stored in BOOKING_OPTIONS_CACHE in Spec
MaxLlmCalls == 2     \* most answers of the language model followed within one turn

(***************************************************************************)
(* The part of the availability schema the mapper reads                    *)
(* (app/exely_client/schemas.py: PlacementPrice, GuestCount,               *)
(* RoomTypeAvailabilityInfo, RoomStayAvailability).                        *)
(***************************************************************************)
\* Provider-assigned placement indices: not contiguous, not 1-based.
PlacementIndexes == {0, 2}
PlacementCodes == {"A", "B"}

\* PlacementPrice: index, kind, code (schemas.py:67-77); the kind follows the code.
PlacementPrice == [index : PlacementIndexes, code : PlacementCodes]

\* GuestCount: placement.index, count (ge=0), age, age_qualifying_code (schemas.py:130-135).
\* The (age, age_qualifying_code) pairs drawn: an adult group, a child group
\* with its code, a child group the provider marks by its age alone.
AdultKind == [age |-> {}, age_qualifying_code |-> NoneVal]
AgeKinds ==
    {AdultKind,
     [age |-> {5}, age_qualifying_code |-> "child"],
     [age |-> {9}, age_qualifying_code |-> NoneVal]}

\* GuestCount: placement.index, count (ge=0), age, age_qualifying_code
\* (schemas.py:130-135), with the age kinds of K.
GuestCount(K) ==
    {[placement_index |-> p, count |-> c, age |-> k.age,
      age_qualifying_code |-> k.age_qualifying_code] :
        p \in PlacementIndexes, c \in 0..MaxCount, k \in K}

SeqsUpTo(S, n) == UNION {[1..k -> S] : k \in 0..n}

RECURSIVE SumCounts(_)
\* sum(gc.count for gc in guests)   (tools.py:376)
SumCounts(gs) == IF gs = <<>> THEN 0 ELSE Head(gs).count + SumCounts(Tail(gs))

\* RoomStayAvailability (schemas.py:141-152): the fields the tools read.
Offer(room_types, guests, rate_plans, guarantees) ==
    [room_types |-> room_types, guests |-> guests,
     rate_plans |-> rate_plans, guarantees |-> guarantees]

Repeat(x, n) == [i \in 1..n |-> x]

Min(S) == CHOOSE x \in S : \A y \in S : x <= y

(***************************************************************************)
(* create_exely_reservation_and_get_link (tools.py:364-514), step by step. *)
(***************************************************************************)
\* Variant: the read takes the entry out of the dictionary.
CachePop(cache, id) ==
    [hit |-> id \in DOMAIN cache,
     value |-> IF id \in DOMAIN cache THEN cache[id] ELSE NoneVal,
     cache |-> [k \in DOMAIN cache \ {id} |-> cache[k]]]

\* BOOKING_OPTIONS_CACHE.get(id) (tools.py:370): the value, or None, and the
\* dictionary as the call leaves it.
CacheGet(cache, id) ==
    [hit |-> id \in DOMAIN cache,
     value |-> IF id \in DOMAIN cache THEN cache[id] ELSE NoneVal,
     cache |-> cache]

\* Variant: only a surplus of guests is refused.
GuestCountSurplusOnly(total_guests, capacity) == total_guests > capacity

\* tools.py:380: total_guests_from_llm_params != total_guest_capacity_from_cache
GuestCountMismatch(total_guests, capacity) == total_guests # capacity

\* tools.py:387-397: the reservation's placements, indexed 1..n in offer order.
reservation_rt_placements(pls) ==
    [i \in 1..Len(pls) |-> [index |-> i, code |-> pls[i].code]]

\* tools.py:388,396: a dict keyed by the placement's code; a later placement
\* with the same code overwrites the entry of an earlier one.
original_placement_code_to_reservation_idx_map(pls) ==
    [c \in {pls[i].code : i \in 1..Len(pls)} |->
        CHOOSE i \in 1..Len(pls) :
            /\ pls[i].code = c
            /\ \A j \in 1..Len(pls) : pls[j].code = c => j <= i]

\* Variant: a guest group whose placement index matches none is put on the
\* first placement.
FirstPlacementWhenUnmatched(pls, gc) ==
    LET hits == {i \in 1..Len(pls) : pls[i].index = gc.placement_index}
    IN  IF hits = {} THEN 1 ELSE Min(hits)

\* tools.py:403: next(pp for pp in placements if pp.index == gc.placement.index);
\* the position of the first match, 0 for None.
target_pp_avail_for_gc(pls, gc) ==
    LET hits == {i \in 1..Len(pls) : pls[i].index = gc.placement_index}
    IN  IF hits = {} THEN 0 ELSE Min(hits)

\* tools.py:410
age_q_code(gc) ==
    IF gc.age_qualifying_code # NoneVal THEN gc.age_qualifying_code
    ELSE IF gc.age # {} THEN "child" ELSE "adult"

\* "child" in code.lower()   (tools.py:416, 422)
IsChildCode(c) == c = "child"

\* Variant: the count of the latest group replaces the sum.
OverwrittenCount(count, added) == added

\* tools.py:414: current_map_entry["count"] += gc_api_from_cache.count
AggregatedCount(count, added) == count + added

\* tools.py:409-417: one guest group folded into reservation_guest_counts_map,
\* kept as the dict's insertion-ordered list of entries.
AddGuestCount(acc, res_idx, gc) ==
    LET known == {i \in 1..Len(acc) : acc[i].placement_index = res_idx}
        acc1 == IF known = {}
                THEN Append(acc, [placement_index |-> res_idx, count |-> 0,
                                  age_qualifying_code |-> age_q_code(gc),
                                  ages_list |-> <<>>])
                ELSE acc
        pos == CHOOSE i \in 1..Len(acc1) : acc1[i].placement_index = res_idx
        cur == acc1[pos]
        new == [placement_index |-> res_idx,
                count |-> AggregatedCount(cur.count, gc.count),
                age_qualifying_code |->
                    IF cur.age_qualifying_code # age_q_code(gc)
                       /\ ~IsChildCode(cur.age_qualifying_code)
                    THEN age_q_code(gc) ELSE cur.age_qualifying_code,
                ages_list |->
                    IF gc.age # {}
                    THEN cur.ages_list \o Repeat(CHOOSE a \in gc.age : TRUE, gc.count)
                    ELSE cur.ages_list]
    IN  [acc1 EXCEPT ![pos] = new]

RECURSIVE reservation_guest_counts_map(_, _, _, _)
\* tools.py:399-417: the loop over the offer's guest groups (every group has a
\* target placement here; the caller returns before when one has none).
reservation_guest_counts_map(gs, pls, idx_map, acc) ==
    IF gs = <<>> THEN acc
    ELSE reservation_guest_counts_map(
            Tail(gs), pls, idx_map,
            AddGuestCount(acc, idx_map[pls[target_pp_avail_for_gc(pls, Head(gs))].code],
                          Head(gs)))

SeqRange(s) == {s[i] : i \in 1..Len(s)}

\* Variant: the age of the last child aggregated is the one sent.
LastAgeSent(map) ==
    [i \in 1..Len(map) |->
        [count |-> map[i].count,
         age_qualifying_code |-> map[i].age_qualifying_code,
         placement_index |-> map[i].placement_index,
         age |-> IF IsChildCode(map[i].age_qualifying_code) /\ map[i].ages_list # <<>>
                 THEN {map[i].ages_list[Len(map[i].ages_list)]} ELSE {},
         warned |-> IsChildCode(map[i].age_qualifying_code)
                    /\ Cardinality(SeqRange(map[i].ages_list)) > 1]]

\* tools.py:419-429: one GuestCountDetailAPI per entry of the map.
reservation_guest_counts_api(map) ==
    [i \in 1..Len(map) |->
        [count |-> map[i].count,
         age_qualifying_code |-> map[i].age_qualifying_code,
         placement_index |-> map[i].placement_index,
         age |-> IF IsChildCode(map[i].age_qualifying_code) /\ map[i].ages_list # <<>>
                 THEN {map[i].ages_list[1]} ELSE {},
         warned |-> IsChildCode(map[i].age_qualifying_code)
                    /\ Cardinality(SeqRange(map[i].ages_list)) > 1]]

\* GuestCountDetailAPI.count is Field(..., ge=1) (schemas.py:223): building an
\* entry with count 0 raises pydantic's ValidationError.
GuestCountsValid(api) == \A i \in 1..Len(api) : api[i].count >= 1

\* tools.py:434: next(rgc.count for rgc in api if rgc.placement_index == idx, 0)
num_guests_for_this_slot_type(api, idx) ==
    LET hits == {i \in 1..Len(api) : api[i].placement_index = idx}
    IN  IF hits = {} THEN 0 ELSE api[Min(hits)].count

RECURSIVE guest_assignment_slots(_, _, _)
\* tools.py:432-435: [index] * count for every reservation placement, in order.
guest_assignment_slots(rtp, api, i) ==
    IF i > Len(rtp) THEN <<>>
    ELSE Repeat(rtp[i].index, num_guests_for_this_slot_type(api, rtp[i].index))
         \o guest_assignment_slots(rtp, api, i + 1)

\* Variant: every guest bound to the last slot.
GuestsAllOnLastSlot(guests, slots) ==
    [i \in 1..Len(guests) |->
        [first_name |-> guests[i].first_name, placement_index |-> slots[Len(slots)]]]

\* tools.py:443-447: the i-th guest of the parameters bound to the i-th slot.
reservation_guests_api_from_llm(guests, slots) ==
    [i \in 1..Len(guests) |->
        [first_name |-> guests[i].first_name, placement_index |-> slots[i]]]

\* What the provider's hotel_reservation_2 call can come to (client.py:248-291):
\* a reservation, an ExelyApiException (network, HTTP status, errors in the
\* body), or a valid body without hotel_reservations.
ProviderReserveOutcomes == {"reserved", "api_exception", "no_reservations"}

\* CreateReservationResult (schemas_llm.py:127-134) and, beside it, what the
\* invocation did on the way: the exception it raised if any, whether the
\* provider's reserve call was made, and the intermediate values of the mapper.
ReservationOutcome(status, booking_number, error, raised, reserve_called, steps) ==
    [status |-> status, booking_number |-> booking_number, error |-> error,
     raised |-> raised, reserve_called |-> reserve_called, steps |-> steps]

NoSteps ==
    [reindexed |-> FALSE, rt_placements |-> <<>>, idx_map |-> <<>>,
     guest_counts |-> <<>>, slots_built |-> FALSE, slots |-> <<>>,
     payload |-> FALSE, guests |-> <<>>, guarantee_code |-> NoneVal]

ErrorResult(error, steps) ==
    ReservationOutcome("error", "", error, NoneVal, FALSE, steps)

\* Variant: the read is a subscription, which raises on an unknown key.
OptionKeyError == ReservationOutcome(NoneVal, "", "", "KeyError", FALSE, NoSteps)

\* tools.py:371-373: the result for an identifier the cache does not hold.
OptionNotFound == ErrorResult("not_found", NoSteps)

\* tools.py:479-514: the provider call and the result built from its response.
ReserveAtProvider(provider, steps) ==
    CASE provider = "reserved" ->
            ReservationOutcome("confirmed", "BN1", "", NoneVal, TRUE, steps)
      [] provider = "api_exception" ->
            ReservationOutcome("error", "", "api", NoneVal, TRUE, steps)
      [] OTHER ->
            ReservationOutcome("error_unexpected_response", "", "unexpected_response",
                               NoneVal, TRUE, steps)

\* tools.py:364-514. params: booking_option_id, guests, guarantee_code.
create_exely_reservation_and_get_link(cache, params, provider) ==
    LET got == CacheGet(cache, params.booking_option_id)                                \* 370
        selected_option_data == got.value
    IN
    IF ~got.hit THEN OptionNotFound                                                     \* 371-373
    ELSE
    LET total_guests_from_llm_params == Len(params.guests)                              \* 375
        total_guest_capacity_from_cache == SumCounts(selected_option_data.guests)      \* 376
    IN
    IF GuestCountMismatch(total_guests_from_llm_params,                                 \* 380-385
                          total_guest_capacity_from_cache)
    THEN ErrorResult("guest_count_mismatch", NoSteps)
    ELSE IF selected_option_data.room_types = <<>>                                      \* 390-392
            \/ selected_option_data.room_types[1].placements = <<>>
    THEN ErrorResult("missing_placements", NoSteps)
    ELSE
    LET pls == selected_option_data.room_types[1].placements
        rtp == reservation_rt_placements(pls)                                           \* 393-397
        idx_map == original_placement_code_to_reservation_idx_map(pls)
        s1 == [NoSteps EXCEPT !.reindexed = TRUE, !.rt_placements = rtp,
                              !.idx_map = idx_map]
    IN
    IF selected_option_data.guests = <<>> THEN ErrorResult("missing_guests", s1)        \* 400-401
    ELSE IF \E i \in 1..Len(selected_option_data.guests) :                              \* 404-408
                target_pp_avail_for_gc(pls, selected_option_data.guests[i]) = 0
    THEN ErrorResult("placement_lookup", s1)
    ELSE
    LET api == reservation_guest_counts_api(
                   reservation_guest_counts_map(selected_option_data.guests, pls,
                                                idx_map, <<>>))
        s2 == [s1 EXCEPT !.guest_counts = api]
    IN
    IF ~GuestCountsValid(api)                                                           \* 427
    THEN ReservationOutcome(NoneVal, "", "", "ValidationError", FALSE, s2)
    ELSE
    LET slots == guest_assignment_slots(rtp, api, 1)                                    \* 431-435
        s3 == [s2 EXCEPT !.slots_built = TRUE, !.slots = slots]
    IN
    IF Len(slots) # total_guests_from_llm_params                                        \* 437-441
    THEN ErrorResult("slot_assignment_internal", s3)
    ELSE IF selected_option_data.rate_plans = <<>>                                      \* 448-450
    THEN ErrorResult("missing_rate_plans", s3)
    ELSE ReserveAtProvider(provider,
            [s3 EXCEPT !.payload = TRUE,                                                \* 452-477
                       !.guests = reservation_guests_api_from_llm(params.guests, slots),
                       !.guarantee_code = params.guarantee_code])

(***************************************************************************)
(* The offers of the availability schema, within the bounds.               *)
(***************************************************************************)
P(index, code) == [index |-> index, code |-> code]

SchemaRoomTypes ==
    {<<>>} \cup {<<[placements |-> p]>> : p \in SeqsUpTo(PlacementPrice, MaxPlacements)}

\* Every shape of room types and placements, with adult guest groups.
StructureOffers ==
    {Offer(rt, gs, rp, <<"G1">>) :
        rt \in SchemaRoomTypes,
        gs \in SeqsUpTo(GuestCount({AdultKind}), MaxGroups),
        rp \in {<<>>, <<"RP">>}}

\* Every mix of adult and child groups, over one placement and over two.
AgeOffers ==
    {Offer(<<[placements |-> p]>>, gs, <<"RP">>, <<"G1">>) :
        p \in {<<P(0, "A")>>, <<P(0, "A"), P(2, "B")>>},
        gs \in SeqsUpTo(GuestCount(AgeKinds), MaxGroups)}

SchemaOffers == StructureOffers \cup AgeOffers

(***************************************************************************)
(* The hotel metadata cache (tools.py:47-101).  A dictionary is a function *)
(* from its keys; a key that is absent is not in the DOMAIN.               *)
(***************************************************************************)
\* tools.py:57: a cached entry is served for one hour, in seconds.
HOTEL_CACHE_TTL == 3600

HotelCodes == {"H1", "H2"}
Languages == {"ru", "en"}
CachedAtKey == "_cached_at_ts"

\* The required and the optional fields of HotelInfoHotelDetail the model keeps
\* (schemas.py:607-616): code and name are required, description is Optional.
HotelRequiredKeys == {"code", "name"}
HotelKnownKeys == {"code", "name", "description"}

\* hotels[0] of the provider's hotel_info answer (client.py:172-200) for a hotel
\* asked in a language: complete, without the optional description, with a key
\* the schema does not know, or without the required name.
HotelInfoRaw(hotel_code, language) ==
    { [code |-> hotel_code, name |-> language, description |-> "d1"],
      [code |-> hotel_code, name |-> language],
      [code |-> hotel_code, name |-> language, rating |-> "r"],
      [code |-> hotel_code, description |-> "d1"] }

\* client.get_hotel_info as the tool sees it: it raises ExelyApiException, or
\* returns a body without hotels, or a body whose hotels[0] is one of the above.
HotelInfoOutcomes(hotel_code, language) ==
    {[kind |-> "api_exception", data |-> <<>>], [kind |-> "no_hotels", data |-> <<>>]}
    \cup {[kind |-> "hotels", data |-> d] : d \in HotelInfoRaw(hotel_code, language)}

\* HotelInfoHotelDetail.model_validate: fails when a required field is absent,
\* ignores unknown keys, and gives an absent Optional field the value None.
HotelInfoHotelDetail_model_validate(d) ==
    [ok |-> HotelRequiredKeys \subseteq DOMAIN d,
     obj |-> [k \in HotelKnownKeys |-> IF k \in DOMAIN d THEN d[k] ELSE NoneVal]]

\* model_dump(exclude_none=True): the fields whose value is not None.
model_dump_exclude_none(obj) ==
    [k \in {f \in DOMAIN obj : obj[f] # NoneVal} |-> obj[k]]

\* dict.pop(key, None), the dictionary afterwards.
DictPop(d, key) == [k \in DOMAIN d \ {key} |-> d[k]]

\* d[key] = value, the dictionary afterwards.
DictSet(d, key, value) == [k \in DOMAIN d \cup {key} |-> IF k = key THEN value ELSE d[k]]

\* Variant: the lifetime is taken in minutes, an entry is stale after a minute.
FreshForAMinute(age) == age * 60 < HOTEL_CACHE_TTL

\* Variant: an entry is still served at the age of exactly one hour.
FreshInclusive(age) == age <= HOTEL_CACHE_TTL

\* tools.py:57: (datetime.now().timestamp() - cached_at_ts) < 3600
IsFresh(age) == age < HOTEL_CACHE_TTL

\* tools.py:59-60: data_to_parse = cached_entry.copy() without _cached_at_ts
data_to_parse(entry) == DictPop(entry, CachedAtKey)

HotelCallResult(returned, value, cache, fetch_calls) ==
    [returned |-> returned, value |-> value, cache |-> cache, fetch_calls |-> fetch_calls]

\* tools.py:74-101: the provider is asked and a valid answer is stored.
FetchHotelDetails(cache, hotel_code, t, outcome) ==
    IF outcome.kind # "hotels"
    THEN HotelCallResult(FALSE, <<>>, cache, 1)
    ELSE LET v == HotelInfoHotelDetail_model_validate(outcome.data)
             data_to_cache ==
                 DictSet(model_dump_exclude_none(v.obj), CachedAtKey, t)
         IN  IF v.ok
             THEN HotelCallResult(TRUE, v.obj, DictSet(cache, hotel_code, data_to_cache), 1)
             ELSE HotelCallResult(FALSE, <<>>, cache, 1)

\* tools.py:52-101 get_hotel_details_from_api at time t, the provider answering
\* with outcome if it is asked.  Every entry is written by line 83 with a float
\* timestamp, so isinstance(cached_at_ts, float) holds for every entry.
get_hotel_details_from_api(cache, hotel_code, language, t, outcome) ==
    IF hotel_code \notin DOMAIN cache
    THEN FetchHotelDetails(cache, hotel_code, t, outcome)
    ELSE LET cached_entry == cache[hotel_code]
             v == HotelInfoHotelDetail_model_validate(data_to_parse(cached_entry))
         IN  IF IsFresh(t - cached_entry[CachedAtKey])
             THEN IF v.ok
                  THEN HotelCallResult(TRUE, v.obj, cache, 0)
                  ELSE FetchHotelDetails(DictPop(cache, hotel_code), hotel_code, t, outcome)
             ELSE FetchHotelDetails(DictPop(cache, hotel_code), hotel_code, t, outcome)

(***************************************************************************)
(* The interpreter directive (tools.py:725-781).                           *)
(***************************************************************************)
ToolCreate == "create_exely_reservation_and_get_link"
ToolSearch == "get_exely_booking_options"
ToolCancel == "cancel_exely_reservation"
ToolHotelInfo == "get_hotel_public_info"

\* A dictionary with one key, and the union of two dictionaries (left wins).
Dict1(k, v) == [x \in {k} |-> v]
DictMerge(a, b) == [k \in DOMAIN a \cup DOMAIN b |-> IF k \in DOMAIN a THEN a[k] ELSE b[k]]
EmptyDict == <<>>

\* dict.get(key): the value, or None.
DictGet(d, key) == IF key \in DOMAIN d THEN d[key] ELSE NoneVal

Directive(kind, tool_name, arguments, clarification_needed) ==
    [kind |-> kind, tool_name |-> tool_name, arguments |-> arguments,
     clarification_needed |-> clarification_needed]

\* Variant: the arguments of a reservation directive are passed on as they came.
ArgumentsAsGiven(arguments) == arguments

\* tools.py:760-767: booking_option_id and guarantee_code are deleted from the
\* arguments of a reservation directive.
StripReservationIdentifiers(arguments) ==
    [k \in DOMAIN arguments \ {"booking_option_id", "guarantee_code"} |-> arguments[k]]

\* The ways a request to the language model ends without a usable answer:
\* the API refuses it for rate limiting (HTTP 429), fails otherwise, answers
\* with text that is no JSON or with nothing (llm_client.py:67-88); or the MCP
\* call of the orchestrator itself is refused with status 429
\* (telegram_bot.py:203-216).
LlmFailures == {"rate_limited", "api_error", "invalid_json", "empty_content"}
McpFailures == {"mcp_overloaded"}

\* llm_client.py:17-88 get_llm_response: the parsed JSON of the answer, or a
\* dictionary with the key "error" for every failure, rate limiting included
\* (the except of line 72 makes no difference between exceptions).
get_llm_response(api, content) ==
    IF api = "content" THEN content
    ELSE [kind |-> "error", tool_name |-> NoneVal, arguments |-> EmptyDict,
          clarification_needed |-> NoneVal, api |-> api]

\* tools.py:725-781: what process_natural_language_request returns for an
\* answer of the language model.  kind "rate_limit" is a dictionary with the
\* key _llm_rate_limit_exceeded_, kind "error" the one with _mcp_client_error_
\* (tools.py:732-738 for an error of the model; telegram_bot.py:179-219 for an
\* error of the MCP call or of the decoding, with the text "сервис перегружен"
\* for status 429), kind "none" an empty answer, kind "malformed" an answer
\* without the three keys.
process_natural_language_request(llm) ==
    IF llm.kind = "none"
    THEN Directive("directive", NoneVal, EmptyDict, "internal_error")
    ELSE IF llm.kind = "rate_limit" THEN Directive("rate_limit", NoneVal, EmptyDict, "rate_limit")
    ELSE IF llm.kind = "error"
    THEN Directive("error", NoneVal, EmptyDict,
                   IF llm.api \in McpFailures THEN "overloaded" ELSE "failed")
    ELSE IF llm.kind = "malformed"
    THEN Directive("directive", NoneVal, EmptyDict, "unexpected_answer")
    ELSE
    LET tool_name_chosen == llm.tool_name
        arguments_chosen ==
            IF tool_name_chosen = ToolCreate
            THEN StripReservationIdentifiers(llm.arguments)
            ELSE llm.arguments
        no_arguments ==
            /\ tool_name_chosen \notin {NoneVal, ""}
            /\ DOMAIN arguments_chosen = {}
            /\ tool_name_chosen \in {ToolSearch, ToolCreate, ToolCancel, ToolHotelInfo}
        tool_name == IF no_arguments THEN NoneVal ELSE tool_name_chosen
        clarification ==
            IF no_arguments THEN "need_details" ELSE llm.clarification_needed
    IN  Directive("directive", tool_name, arguments_chosen,
                  IF tool_name = NoneVal /\ clarification \in {NoneVal, ""}
                  THEN "please_clarify" ELSE clarification)

(***************************************************************************)
(* The other tools as the bot calls them (tools.py:103-362, 517-557).      *)
(***************************************************************************)
\* config.py:10 DEFAULT_HOTEL_CODE and config.py:16 DEFAULT_LANGUAGE_LLM
DEFAULT_HOTEL_CODE == "H1"
DEFAULT_LANGUAGE_LLM == "ru"

\* Variant: the identifier is the same at every draw.
OptionIdOfFirstDraw(n) == "opt1"

\* str(uuid.uuid4()) (tools.py:289): the n-th identifier drawn, never drawn before.
OptionId(n) == "opt" \o ToString(n)

\* Check-in dates of a search: well-formed and ahead, well-formed and past, and
\* not of the form YYYY-MM-DD.
DateAhead == "2030-01-10"
DatePast == "2020-01-10"
DateIllFormed == "soon"
SearchDates == {DateAhead, DatePast, DateIllFormed}

\* tools.py:103-111: get_hotel_public_info finds the hotel or reports it not found.
get_hotel_public_info(cache, params, t, outcome) ==
    get_hotel_details_from_api(cache, params.hotel_code, DEFAULT_LANGUAGE_LLM, t, outcome)

BookingOptionResult(option_id, room_stay) ==
    [option_id |-> option_id, details |-> [available_guarantees |-> room_stay.guarantees]]

RECURSIVE StoreRoomStays(_, _, _, _, _)
\* tools.py:282-338: every room stay with a rate plan and room for the requested
\* guests is stored under a new identifier and listed in the results.
StoreRoomStays(room_stays, requested_total_guests, cache, n, results) ==
    IF room_stays = <<>>
    THEN [cache |-> cache, puts |-> n, results |-> results]
    ELSE LET room_stay == Head(room_stays)
             option_id == OptionId(n + 1)
         IN  IF room_stay.rate_plans = <<>>
                \/ SumCounts(room_stay.guests) < requested_total_guests
             THEN StoreRoomStays(Tail(room_stays), requested_total_guests, cache, n, results)
             ELSE StoreRoomStays(Tail(room_stays), requested_total_guests,
                                 DictSet(cache, option_id, room_stay), n + 1,
                                 Append(results, BookingOptionResult(option_id, room_stay)))

SentinelOptionIds ==
    {"error", "no_options", "no_suitable_options", "no_options_promo",
     "no_suitable_options_promo"}

SearchResult(results, cache, n, hotel_cache) ==
    [results |-> results, cache |-> cache, puts |-> n, hotel_cache |-> hotel_cache]

Sentinel(option_id) == <<[option_id |-> option_id, details |-> [available_guarantees |-> <<>>]]>>

\* tools.py:287: num_adults plus the number of children ages, if any are given.
requested_total_guests(params) ==
    params.num_adults
    + (IF "children_ages" \in DOMAIN params THEN Len(params.children_ages) ELSE 0)

\* tools.py:156-362 get_exely_booking_options without a promocode: the hotel
\* details are looked up first, then the dates are checked, then the provider is
\* asked and its room stays are stored.
get_exely_booking_options(cache, n, hotel_cache, params, t, outcome) ==
    LET hotel_details ==
            get_hotel_details_from_api(hotel_cache, DEFAULT_HOTEL_CODE,
                                       DEFAULT_LANGUAGE_LLM, t, outcome.hotel)
        stored == StoreRoomStays(outcome.room_stays, requested_total_guests(params),
                                 cache, n, <<>>)
    IN  IF params.check_in_date # DateAhead
        THEN SearchResult(Sentinel("error"), cache, n, hotel_details.cache)
        ELSE IF outcome.kind # "room_stays"
        THEN SearchResult(Sentinel("error"), cache, n, hotel_details.cache)
        ELSE IF outcome.room_stays = <<>>
        THEN SearchResult(Sentinel("no_options"), cache, n, hotel_details.cache)
        ELSE IF stored.results = <<>>
        THEN SearchResult(Sentinel("no_suitable_options"), stored.cache, stored.puts,
                          hotel_details.cache)
        ELSE SearchResult(stored.results, stored.cache, stored.puts, hotel_details.cache)

\* tools.py:517-557 cancel_exely_reservation: the status it reports.
CancelStatuses == {"cancelled", "unchanged", "error_api"}

\* The statuses the bot treats as a failed reservation (telegram_bot.py:651).
FailedReservationStatuses ==
    {"error", "failed", "error_api", "error_internal", "error_unexpected_response",
     "cancelled"}

(***************************************************************************)
(* The sessions (telegram_bot.py:87-133).                                  *)
(***************************************************************************)
USER_ACTION_AWAITING_CLARIFICATION == "awaiting_clarification_llm"
USER_ACTION_AWAITING_OPTION_CHOICE == "awaiting_option_choice"
USER_ACTION_AWAITING_BOOKING_DETAILS == "awaiting_booking_details_llm"

\* telegram_bot.py:92-108: the state get_or_init_state gives a new user.
NewSession ==
    [action |-> NoneVal,
     context_hotel_info |-> NoneVal,
     context_check_in_date |-> NoneVal,
     selected_option_id |-> NoneVal,
     selected_guarantee_code |-> NoneVal,
     current_search_options_details |-> EmptyDict,
     context_customer_info |-> NoneVal]

get_or_init_state(states, user_id) ==
    IF user_id \in DOMAIN states THEN states ELSE DictSet(states, user_id, NewSession)

\* Variant: the reset forgets the displayed offers and keeps the selection.
ResetKeepsSelection(state) ==
    [state EXCEPT !.action = NoneVal, !.current_search_options_details = EmptyDict]

\* telegram_bot.py:110-119
reset_user_action_and_search_context(state) ==
    [state EXCEPT !.action = NoneVal,
                  !.current_search_options_details = EmptyDict,
                  !.selected_option_id = NoneVal,
                  !.selected_guarantee_code = NoneVal]

\* telegram_bot.py:121-133; the dates, the adults and the children ages of the
\* search context are set and reset together and kept as context_check_in_date.
reset_full_search_parameters(state, reset_hotel_info) ==
    [state EXCEPT !.context_check_in_date = NoneVal,
                  !.context_customer_info = NoneVal,
                  !.context_hotel_info = IF reset_hotel_info THEN NoneVal ELSE @]

\* The guest records of a tool call: k guests, told apart by their names 1..k.
GuestList(k) == [i \in 1..k |-> [first_name |-> i]]

NoCall ==
    [made |-> FALSE, caller |-> NoneVal, params |-> NoneVal,
     cache_before |-> <<>>, result |-> NoneVal]

CallRecord(caller, params, cache_before, result) ==
    [made |-> TRUE, caller |-> caller, params |-> params,
     cache_before |-> cache_before, result |-> result]

\* The coroutines of get_hotel_details_from_api an MCP server runs on its event
\* loop, none of them started.
HotelCallIds == {"c1", "c2"}
IdleHotelCall ==
    [pc |-> "idle", hotel_code |-> NoneVal, language |-> NoneVal,
     cache_before |-> <<>>, outcome |-> [kind |-> NoneVal, data |-> <<>>],
     returned |-> FALSE, value |-> <<>>]
NoHotelCalls == [c \in HotelCallIds |-> IdleHotelCall]

NoHotelCall ==
    [made |-> FALSE, hotel_code |-> NoneVal, language |-> NoneVal, at |-> 0,
     cache_before |-> <<>>, outcome |-> [kind |-> NoneVal, data |-> <<>>],
     result |-> HotelCallResult(FALSE, <<>>, <<>>, 0)]

OptionIds == {"opt1", "opt2"}
\* An identifier no search has produced.
UnknownOptionId == "stale"

(***************************************************************************)
(* handle_text_messages_async (telegram_bot.py:296-673).  A turn works on  *)
(* a record w of the values it reads and writes: user_states, the two      *)
(* caches, puts, lastCall, and the notes of the turn.  steps are the       *)
(* answers of the language model in the order it is asked, each with the   *)
(* outcome of the provider call its tool would make.                       *)
(***************************************************************************)
NoTurn ==
    [handler |-> NoneVal, user |-> NoneVal, action_before |-> NoneVal,
     llm_calls |-> 0, messages |-> 0, exception |-> NoneVal, cut |-> FALSE,
     tool_executed |-> NoneVal, reserve_invoked |-> FALSE,
     llm_booking_option_id |-> NoneVal, llm_guarantee_code |-> NoneVal,
     selected_option_id |-> NoneVal, selected_guarantee_code |-> NoneVal,
     llm_tool_name |-> NoneVal, llm_clarification |-> NoneVal,
     fields_failed |-> {}, fields_named |-> {}, options_shown |-> 0,
     cancel_status |-> NoneVal, llm_api |-> NoneVal, message_kind |-> NoneVal]

Say(w, n) == [w EXCEPT !.turn.messages = @ + n]
SetState(w, user_id, state) == [w EXCEPT !.user_states[user_id] = state]
\* bot.send_message n times, then user_states[user_id] = state; return
Finish(w, user_id, state, n) == Say(SetState(w, user_id, state), n)
Raise(w, user_id, state, exception) ==
    [SetState(w, user_id, state) EXCEPT !.turn.exception = exception]

Truthy(v) == v \notin {NoneVal, ""}

\* The fields a tool's parameter model requires (schemas_llm.py:69-77, 106-112,
\* 114-117, 143-145); the two dates of a search are kept as check_in_date.
RequiredFields(tool_name) ==
    CASE tool_name = ToolSearch -> {"check_in_date", "num_adults"}
      [] tool_name = ToolCreate ->
            {"booking_option_id", "guests", "customer", "guarantee_code"}
      [] tool_name = ToolCancel -> {"booking_number", "cancellation_code"}
      [] tool_name = ToolHotelInfo -> {"hotel_code"}
      [] OTHER -> {}

\* ToolParams(**arguments): the fields of the ValidationError, one error for
\* every required field that is absent and one for num_adults under 1
\* (schemas_llm.py:77, ge=1); no field when the arguments are valid.
FailedFields(tool_name, arguments) ==
    (RequiredFields(tool_name) \ DOMAIN arguments)
    \cup (IF tool_name = ToolSearch /\ "num_adults" \in DOMAIN arguments
             /\ arguments["num_adults"] < 1
          THEN {"num_adults"} ELSE {})

\* telegram_bot.py:394-396 and alike: the clarification lists every error of
\* the ValidationError.
SayFields(w, fields) == [w EXCEPT !.turn.fields_named = fields]
\* telegram_bot.py:374: not tool_name_to_call or tool_name_to_call.lower() == "null"
NoTool(tool_name) == ~Truthy(tool_name) \/ tool_name = "null"

\* telegram_bot.py:360-372: the action after a clarification question.
ActionAfterClarification(tool_name, action) ==
    IF tool_name = ToolCreate THEN USER_ACTION_AWAITING_BOOKING_DETAILS
    ELSE IF tool_name = ToolSearch THEN USER_ACTION_AWAITING_CLARIFICATION
    ELSE IF action = USER_ACTION_AWAITING_OPTION_CHOICE
    THEN USER_ACTION_AWAITING_BOOKING_DETAILS
    ELSE USER_ACTION_AWAITING_CLARIFICATION

\* telegram_bot.py:476-478: the session's selection written over the arguments.
final_args_for_create(arguments, state_data) ==
    LET with_id == IF Truthy(state_data.selected_option_id)
                   THEN DictSet(arguments, "booking_option_id", state_data.selected_option_id)
                   ELSE arguments
    IN  IF Truthy(state_data.selected_guarantee_code)
        THEN DictSet(with_id, "guarantee_code", state_data.selected_guarantee_code)
        ELSE with_id

\* telegram_bot.py:475-496 and 587-654: the reservation branch of a turn.
ReservationBranch(w, user_id, state, d, provider) ==
    LET args == final_args_for_create(d.arguments, state)
    IN  IF ~Truthy(DictGet(args, "booking_option_id")) \/ ~Truthy(DictGet(args, "guarantee_code"))
        THEN Finish(w, user_id, [state EXCEPT !.action = USER_ACTION_AWAITING_OPTION_CHOICE], 1)
        ELSE IF FailedFields(ToolCreate, args) # {}
        THEN Finish(SayFields(w, FailedFields(ToolCreate, args)), user_id,
                    [state EXCEPT !.action = USER_ACTION_AWAITING_BOOKING_DETAILS], 1)
        ELSE
        LET tool_params == [booking_option_id |-> args["booking_option_id"],
                            guests |-> GuestList(args["guests"]),
                            guarantee_code |-> args["guarantee_code"]]
            state1 == [state EXCEPT !.context_customer_info = args["customer"]]
            res == create_exely_reservation_and_get_link(
                       w.BOOKING_OPTIONS_CACHE, tool_params, provider)
            w1 == [w EXCEPT
                     !.lastCall = CallRecord("bot", tool_params, w.BOOKING_OPTIONS_CACHE, res),
                     !.BOOKING_OPTIONS_CACHE =
                         CacheGet(w.BOOKING_OPTIONS_CACHE, tool_params.booking_option_id).cache,
                     !.turn.reserve_invoked = TRUE,
                     !.turn.tool_executed = ToolCreate,
                     !.turn.selected_option_id = state.selected_option_id,
                     !.turn.selected_guarantee_code = state.selected_guarantee_code]
        IN  IF res.raised # NoneVal
            THEN \* telegram_bot.py:514-519: except ValidationError
                 Finish(w1, user_id,
                        [state1 EXCEPT !.action = USER_ACTION_AWAITING_CLARIFICATION], 1)
            ELSE IF state1.context_check_in_date = NoneVal
            THEN \* telegram_bot.py:594-598: strptime(None, ...) raises TypeError,
                 \* which the except ValueError does not catch.
                 Raise(w1, user_id, state1, "TypeError")
            ELSE IF res.status \notin FailedReservationStatuses
            THEN Finish(w1, user_id,
                        [reset_full_search_parameters(
                             reset_user_action_and_search_context(state1), TRUE)
                         EXCEPT !.action = NoneVal], 1)
            ELSE Finish(w1, user_id, [state1 EXCEPT !.action = NoneVal], 1)

\* Variant: every executed search leaves the session awaiting a choice.
AlwaysAwaitingOptionChoice(results) == USER_ACTION_AWAITING_OPTION_CHOICE

\* telegram_bot.py:538, 574 and 579: the action after a search, by whether its
\* first result is an offer or one of the entries that stand for none.
ActionAfterSearch(results) ==
    IF results[1].option_id \notin SentinelOptionIds
    THEN USER_ACTION_AWAITING_OPTION_CHOICE
    ELSE NoneVal

\* telegram_bot.py:457-473 and 533-586: the search branch of a turn.
SearchBranch(w, user_id, state, d, outcome) ==
    IF FailedFields(ToolSearch, d.arguments) # {}
    THEN Finish(SayFields(w, FailedFields(ToolSearch, d.arguments)), user_id,
                [state EXCEPT !.action = USER_ACTION_AWAITING_CLARIFICATION], 1)
    ELSE
    LET tool_params == [check_in_date |-> d.arguments["check_in_date"],
                        num_adults |-> d.arguments["num_adults"]]
        state1 == reset_user_action_and_search_context(
                      [state EXCEPT !.context_check_in_date = tool_params.check_in_date])
        r == get_exely_booking_options(w.BOOKING_OPTIONS_CACHE, w.puts, w.HOTEL_INFO_CACHE,
                                       tool_params, now, outcome)
        w1 == [w EXCEPT !.BOOKING_OPTIONS_CACHE = r.cache, !.puts = r.puts,
                        !.HOTEL_INFO_CACHE = r.hotel_cache,
                        !.turn.tool_executed = ToolSearch]
        shown == SubSeq(r.results, 1, Min({3, Len(r.results)}))
        details == [id \in {shown[i].option_id : i \in 1..Len(shown)} |->
                       (CHOOSE o \in SeqRange(shown) : o.option_id = id).details]
    IN  IF tool_params.check_in_date = DateIllFormed
        THEN \* telegram_bot.py:536: strptime of the stored date raises ValueError
             Raise(w1, user_id, state1, "ValueError")
        ELSE IF r.results[1].option_id \notin SentinelOptionIds
        THEN Finish([w1 EXCEPT !.turn.options_shown = Len(shown)], user_id,
                    [state1 EXCEPT !.current_search_options_details = details,
                                   !.action = ActionAfterSearch(r.results)],
                    1 + Len(shown))
        ELSE Finish(w1, user_id, [state1 EXCEPT !.action = ActionAfterSearch(r.results)], 1)

\* telegram_bot.py:498-506 and 655-662: the cancellation branch of a turn.
CancelBranch(w, user_id, state, d, status) ==
    IF FailedFields(ToolCancel, d.arguments) # {}
    THEN Finish(SayFields(w, FailedFields(ToolCancel, d.arguments)), user_id,
                [state EXCEPT !.action = USER_ACTION_AWAITING_CLARIFICATION], 1)
    ELSE LET w1 == [w EXCEPT !.turn.tool_executed = ToolCancel,
                             !.turn.cancel_status = status]
         IN  IF status = "cancelled"
             THEN Finish(w1, user_id,
                         [reset_full_search_parameters(
                              reset_user_action_and_search_context(state), TRUE)
                          EXCEPT !.action = NoneVal], 1)
             ELSE Finish(w1, user_id, [state EXCEPT !.action = NoneVal], 1)

RECURSIVE handle_text_messages_async(_, _, _, _)
handle_text_messages_async(w0, user_id, steps, is_command_start) ==
    IF steps = <<>>
    THEN \* the language model is asked again, beyond what the model follows
         [w0 EXCEPT !.turn.cut = TRUE]
    ELSE
    LET step == Head(steps)
        state == get_or_init_state(w0.user_states, user_id)[user_id]
        \* the arguments the tool's parameter model is built from
        arguments_for_tool ==
            IF step.llm.tool_name = ToolCreate
            THEN final_args_for_create(StripReservationIdentifiers(step.llm.arguments), state)
            ELSE step.llm.arguments
        w == [w0 EXCEPT !.user_states = get_or_init_state(@, user_id),
                        !.turn.llm_calls = @ + 1,
                        !.turn.llm_tool_name = step.llm.tool_name,
                        !.turn.llm_clarification = step.llm.clarification_needed,
                        !.turn.llm_api = step.llm.api,
                        !.turn.fields_failed =
                            FailedFields(step.llm.tool_name, arguments_for_tool),
                        !.turn.fields_named = {}]
        d == process_natural_language_request(step.llm)
        clarification_needed ==
            IF d.clarification_needed = "meta" THEN "greeting" ELSE d.clarification_needed
    IN  IF d.kind = "rate_limit"
        THEN \* telegram_bot.py:319-325
             Finish([w EXCEPT !.turn.message_kind = "rate_limit"], user_id, state, 1)
        ELSE IF d.kind = "error"
        THEN \* telegram_bot.py:327-340: the orchestrator's text when it says
             \* "сервис перегружен" or "попробуйте позже", else the generic one
             Finish([w EXCEPT !.turn.message_kind =
                                  IF d.clarification_needed = "overloaded"
                                  THEN "overloaded" ELSE "technical_problem"],
                    user_id, [state EXCEPT !.action = NoneVal], 1)
        ELSE IF d.clarification_needed = "meta" /\ state.context_hotel_info = NoneVal
        THEN \* telegram_bot.py:350: state_data.get("context_hotel_info", {}) is None,
             \* and None.get raises AttributeError
             Raise(w, user_id, state, "AttributeError")
        ELSE IF d.clarification_needed = "meta" /\ NoTool(d.tool_name)
        THEN Finish(w, user_id, [state EXCEPT !.action = USER_ACTION_AWAITING_CLARIFICATION], 1)
        ELSE IF Truthy(clarification_needed) /\ clarification_needed # "null"
        THEN Finish(w, user_id,
                    [state EXCEPT !.action = ActionAfterClarification(d.tool_name, state.action)],
                    1)
        ELSE IF NoTool(d.tool_name)
        THEN Finish(w, user_id, [state EXCEPT !.action = NoneVal], 1)
        ELSE IF d.tool_name = ToolHotelInfo
        THEN IF FailedFields(ToolHotelInfo, d.arguments) # {}
             THEN Finish(SayFields(w, FailedFields(ToolHotelInfo, d.arguments)), user_id,
                         [state EXCEPT !.action = USER_ACTION_AWAITING_CLARIFICATION], 1)
             ELSE LET r == get_hotel_public_info(w.HOTEL_INFO_CACHE,
                               [hotel_code |-> d.arguments["hotel_code"]], now,
                               step.outcome.hotel)
                      w1 == [w EXCEPT !.HOTEL_INFO_CACHE = r.cache,
                                      !.turn.tool_executed = ToolHotelInfo]
                  IN  IF r.returned
                      THEN handle_text_messages_async(
                               Finish(w1, user_id,
                                      [state EXCEPT !.context_hotel_info = r.value["code"]], 1),
                               user_id, Tail(steps), FALSE)
                      ELSE Finish(w1, user_id, [state EXCEPT !.action = NoneVal], 1)
        ELSE IF d.tool_name = ToolSearch
        THEN SearchBranch(w, user_id, state, d, step.outcome)
        ELSE IF d.tool_name = ToolCreate
        THEN ReservationBranch(
                 [w EXCEPT !.turn.llm_booking_option_id =
                               DictGet(step.llm.arguments, "booking_option_id"),
                           !.turn.llm_guarantee_code =
                               DictGet(step.llm.arguments, "guarantee_code")],
                 user_id, state, d, step.outcome.provider)
        ELSE IF d.tool_name = ToolCancel
        THEN CancelBranch(w, user_id, state, d, step.outcome.cancel)
        ELSE \* telegram_bot.py:507-512: a tool the bot does not know
             Finish(w, user_id,
                    [reset_full_search_parameters(
                         reset_user_action_and_search_context(state), TRUE)
                     EXCEPT !.action = NoneVal], 1)

(***************************************************************************)
(* The provider client (client.py:61-348).  The HTTP layer answers a       *)
(* request with a network error or with a response: a status and a body.   *)
(* A body is no JSON, or a JSON object with its errors array (the messages *)
(* of its entries; empty when the key is absent) whose other fields do or  *)
(* do not fit the response model of the operation.                         *)
(***************************************************************************)
MaxErrors == 2

HttpAnswer(transport, status_code, body, errors, well_formed) ==
    [transport |-> transport, status_code |-> status_code, body |-> body,
     errors |-> errors, well_formed |-> well_formed]

NoAnswer == HttpAnswer(NoneVal, NoneVal, NoneVal, <<>>, FALSE)

\* What an operation of the client gives its caller: it returns (the result
\* holds the errors array of the answer) or raises.
ClientReturn(errors) ==
    [outcome |-> "returned", exception |-> NoneVal, status_code |-> NoneVal,
     errors |-> errors]
ClientRaise(exception, status_code) ==
    [outcome |-> "raised", exception |-> exception, status_code |-> status_code,
     errors |-> <<>>]

NoClientCall == [operation |-> NoneVal, answer |-> NoAnswer,
                 result |-> ClientReturn(<<>>), made |-> FALSE]

\* client.py:102-170: httpx.RequestError (timeouts included) at line 159,
\* raise_for_status (129) caught at 141, a body that is no JSON at 131-138;
\* every other exception of the block is wrapped at 163-170.
_request(answer) ==
    IF answer.transport = "RequestError"
    THEN ClientRaise("ExelyApiException", NoneVal)
    ELSE IF answer.status_code # "200"
    THEN ClientRaise("ExelyApiException", answer.status_code)
    ELSE IF answer.body = "not_json"
    THEN ClientRaise("ExelyApiException", "200")
    ELSE ClientReturn(answer.errors)

\* client.py:185-211: the dictionary is returned as it came; errors in it are
\* logged (205-208, the raise is commented out).
get_hotel_info(answer) == _request(answer)

\* client.py:230-245: the dictionary is validated as HotelAvailabilityResponse,
\* whose errors field (schemas.py:202) takes the array.
get_hotel_availability(answer) ==
    LET api_response_dict == _request(answer)
    IN  IF api_response_dict.outcome = "raised" THEN api_response_dict
        ELSE IF answer.well_formed THEN ClientReturn(api_response_dict.errors)
        ELSE ClientRaise("ExelyApiException", "200")

\* client.py:260-297 and 312-348: a non-empty errors list is raised with
\* status 400 before the dictionary is validated.
RaiseEmbeddedErrors(answer) ==
    LET api_response_dict == _request(answer)
    IN  IF api_response_dict.outcome = "raised" THEN api_response_dict
        ELSE IF api_response_dict.errors # <<>>
        THEN ClientRaise("ExelyApiException", "400")
        ELSE IF answer.well_formed THEN ClientReturn(api_response_dict.errors)
        ELSE ClientRaise("ExelyApiException", "200")

create_hotel_reservation(answer) == RaiseEmbeddedErrors(answer)
cancel_hotel_reservation(answer) == RaiseEmbeddedErrors(answer)

ClientOperations == {"get_hotel_info", "get_hotel_availability",
                     "create_hotel_reservation", "cancel_hotel_reservation"}

ClientResultOf(operation, answer) ==
    CASE operation = "get_hotel_info" -> get_hotel_info(answer)
      [] operation = "get_hotel_availability" -> get_hotel_availability(answer)
      [] operation = "create_hotel_reservation" -> create_hotel_reservation(answer)
      [] operation = "cancel_hotel_reservation" -> cancel_hotel_reservation(answer)

(***************************************************************************)
(* What the user is told when the provider fails (client.py:141-170,       *)
(* 262-280, 313-331; tools.py:215-227, 479-501, 551-554; telegram_bot.py   *)
(* 581-585, 630, 657).  A text is the sequence of its parts: the name of a *)
(* fixed wording, and the texts put into it.                               *)
(***************************************************************************)
\* str(e) and the fields of the ExelyApiException the client raises.
ExelyApiException(status_code, first_error_message, message) ==
    [status_code |-> status_code, first_error_message |-> first_error_message,
     message |-> message]

\* client.py:141-162 _request: a network error has no status and no parsed
\* answer; an HTTP error status carries the status and the answer's body, here
\* a JSON body whose errors[0].message is the provider's error text.
RequestFailure(kind, status_code, error_text) ==
    IF kind = "network"
    THEN ExelyApiException(NoneVal, NoneVal, <<"Network request failed", error_text>>)
    ELSE ExelyApiException(status_code, error_text,
                           <<"failed with status", status_code, error_text>>)

\* client.py:262-280 and 313-331: a 200 answer with errors, to a reservation
\* or a cancellation, is raised with status 400 and the first error's message.
EmbeddedErrors(error_text) ==
    ExelyApiException("400", error_text, <<"200 OK with errors", error_text>>)

\* tools.py:215-220 and 224-227: summary_text of the "error" entry of a search.
SearchFailureText(kind, status_code, error_text) ==
    IF kind = "embedded"
    THEN <<"search_failed", error_text>>
    ELSE <<"search_failed_api_problem",
           RequestFailure(kind, status_code, error_text).message>>

\* tools.py:481-492: error_message of a reservation the provider refused.
ReservationFailureText(e) ==
    IF e.status_code = "400"
    THEN IF e.first_error_message # NoneVal
         THEN <<"reservation_failed_wrong_information",
                e.first_error_message>>
         ELSE <<"reservation_failed_wrong_information">>
    ELSE <<"reservation_failed_api_problem">>

\* tools.py:551-554: message of a cancellation the provider refused.
CancellationFailureText(e) == <<"cancellation_failed", e.message>>

\* What the bot sends for the failure f when the provider's error text is
\* error_text: the summary of the search (telegram_bot.py:581-585), the
\* booking result with its note (630, 638), the cancellation result (657).
MessageForFailure(f, error_text) ==
    LET e == IF f.kind = "embedded" THEN EmbeddedErrors(error_text)
             ELSE RequestFailure(f.kind, f.status_code, error_text)
    IN  CASE f.operation = "search" ->
                SearchFailureText(f.kind, f.status_code, error_text)
          [] f.operation = "reservation" ->
                <<"booking_result", "note_from_system">>
                \o ReservationFailureText(e)
          [] f.operation = "cancellation" ->
                <<"cancellation_result">> \o CancellationFailureText(e) \o <<"error_api">>

\* No failure is followed: the other specifications leave these as they are.
FailureIdle ==
    /\ providerFailure = [operation |-> NoneVal, kind |-> NoneVal,
                          status_code |-> NoneVal, error_texts |-> <<>>]
    /\ userMessages = <<>>
    /\ clientCall = NoClientCall

\* telegram_bot.py:81, 761-766: no handler is in execution and Telegram holds no
\* update: the other specifications leave the polling loop as it is.
NoHandler == [chat |-> NoneVal, at |-> NoneVal, tool |-> NoneVal, depth |-> 0]
PollingIdle ==
    dispatch = [updates |-> <<>>, handler |-> NoHandler, ended |-> NoneVal,
                handled |-> {}]

\* No MCP client has searched: the other specifications leave this as it is.
NoSearch == [made |-> FALSE, params |-> <<>>, option_ids |-> {}]
SearchIdle == lastSearch = NoSearch

\* No tool function has made a provider client: the other specifications leave
\* this as it is.
NoToolCall == [tool |-> NoneVal, path |-> NoneVal, opened |-> 0, closed |-> 0]
NoClients == [open |-> 0, call |-> NoToolCall]
ClientsIdle == clients = NoClients

(***************************************************************************)
(* The dialog history of one user (telegram_bot.py:135-143).               *)
(***************************************************************************)
\* config.py:28: the length the settings give when the environment gives none.
DefaultDialogHistoryLength == 30

DialogTurn(role, content) == [role |-> role, content |-> content]

\* current_turns[-n:]: the last n entries of the list; all of it when n is 0,
\* -0 being 0; the list without its first -n entries when n is negative.
LastEntries(current_turns, n) ==
    IF n > 0
    THEN SubSeq(current_turns, Len(current_turns) - n + 1, Len(current_turns))
    ELSE SubSeq(current_turns, 1 - n, Len(current_turns))

\* telegram_bot.py:135-143 add_to_dialog_history: the list it leaves in the
\* session.
add_to_dialog_history(current_turns, role, content, history_length) ==
    IF /\ current_turns # <<>>
       /\ current_turns[Len(current_turns)] = DialogTurn(role, content)
    THEN current_turns
    ELSE LET appended == Append(current_turns, DialogTurn(role, content))
         IN  IF Len(appended) > history_length
             THEN LastEntries(appended, history_length)
             ELSE appended

\* No history is followed: the other specifications leave these as they are.
HistoryIdle ==
    /\ LLM_DIALOG_HISTORY_LENGTH = DefaultDialogHistoryLength
    /\ llm_dialog_turns = <<>>
    /\ offered = <<>>

(***************************************************************************)
(* MapperSpec: the reservation tool, called as an MCP tool (main.py:58)    *)
(* on a cache that holds one offer of the schema.  The tool is applied     *)
(* once to each offer and each input; sequences of calls are in Spec.      *)
(***************************************************************************)
\* The last update or call has been handled: the next one is taken
\* (telegram_bot.py:761-766, bot.polling with threaded=False at line 81).
Handled == lastTurn.handler = NoneVal /\ ~lastCall.made

MapperInit ==
    /\ \E o \in SchemaOffers : BOOKING_OPTIONS_CACHE = [id \in {"opt1"} |-> o]
    /\ puts = 1
    /\ lastCall = NoCall
    /\ user_states = EmptyDict
    /\ lastTurn = NoTurn
    /\ HOTEL_INFO_CACHE = <<>>
    /\ now = 0
    /\ ticks = 0
    /\ lastHotelCall = NoHotelCall
    /\ hotelCalls = NoHotelCalls
    /\ HistoryIdle
    /\ FailureIdle
    /\ PollingIdle
    /\ SearchIdle
    /\ ClientsIdle

\* main.py:58: create_exely_reservation_and_get_link invoked by an MCP client.
McpCreateReservation(id, k, provider) ==
    LET params == [booking_option_id |-> id, guests |-> GuestList(k),
                   guarantee_code |-> "G1"]
    IN
    /\ Handled
    /\ lastCall' = CallRecord("mcp", params, BOOKING_OPTIONS_CACHE,
                        create_exely_reservation_and_get_link(
                            BOOKING_OPTIONS_CACHE, params, provider))
    /\ BOOKING_OPTIONS_CACHE' = CacheGet(BOOKING_OPTIONS_CACHE, id).cache
    /\ lastTurn' = NoTurn
    /\ UNCHANGED <<puts, user_states, hotelVars, historyVars, failureVars, pollingVars, searchVars, clientVars>>

MapperNext ==
    \E id \in {"opt1", UnknownOptionId}, k \in 0..MaxGuests,
          provider \in ProviderReserveOutcomes :
            McpCreateReservation(id, k, provider)

MapperSpec == MapperInit /\ [][MapperNext]_vars

(***************************************************************************)
(* Spec: the bot.  The bot is created with threaded=False                  *)
(* (telegram_bot.py:81) and every handler runs its coroutine to the end    *)
(* with asyncio.run, so a turn is one step.  The tools run in the bot's    *)
(* process (telegram_bot.py imports them); main.py registers the same      *)
(* functions as MCP tools, and the model lets an MCP client call the       *)
(* reservation tool on the same dictionary.  The clock stands still.       *)
(***************************************************************************)
Users == {"u1"}

\* What the provider can return to a search: a stay for two adults, a stay for
\* one, a stay for two without a guarantee, a stay without a rate plan.
Adults(placement_index, count) ==
    [placement_index |-> placement_index, count |-> count,
     age |-> {}, age_qualifying_code |-> NoneVal]
BotOfferForTwo ==
    Offer(<<[placements |-> <<P(0, "A")>>]>>, <<Adults(0, 2)>>, <<"RP">>, <<"G1">>)
BotOfferForOne ==
    Offer(<<[placements |-> <<P(2, "A")>>]>>, <<Adults(2, 1)>>, <<"RP">>, <<"G2">>)
BotOfferWithoutGuarantee ==
    Offer(<<[placements |-> <<P(0, "A")>>]>>, <<Adults(0, 2)>>, <<"RP">>, <<>>)
BotOfferWithoutRatePlan ==
    Offer(<<[placements |-> <<P(0, "A")>>]>>, <<Adults(0, 2)>>, <<>>, <<"G1">>)
BotOffers ==
    {BotOfferForTwo, BotOfferForOne, BotOfferWithoutGuarantee, BotOfferWithoutRatePlan}

\* What the hotel-info endpoint answers during a turn.
BotHotelOutcomes ==
    { [kind |-> "api_exception", data |-> <<>>],
      [kind |-> "hotels",
       data |-> [code |-> DEFAULT_HOTEL_CODE, name |-> DEFAULT_LANGUAGE_LLM]] }

NoOutcome ==
    [provider |-> "reserved", cancel |-> "unchanged",
     hotel |-> [kind |-> "api_exception", data |-> <<>>],
     kind |-> "api_exception", room_stays |-> <<>>]

ReserveOutcomes == {[NoOutcome EXCEPT !.provider = p] : p \in ProviderReserveOutcomes}
CancelOutcomes == {[NoOutcome EXCEPT !.cancel = c] : c \in CancelStatuses}
HotelOutcomes == {[NoOutcome EXCEPT !.hotel = h] : h \in BotHotelOutcomes}
\* The room stays of one availability answer: none, one, or two of which the
\* second has room for one guest only or has no guarantee.
SearchRoomStays ==
    {<<>>} \cup {<<o>> : o \in BotOffers}
    \cup {<<BotOfferForTwo, o>> : o \in {BotOfferForOne, BotOfferWithoutGuarantee}}
SearchOutcomes ==
    {[NoOutcome EXCEPT !.hotel = h, !.kind = "room_stays", !.room_stays = rs] :
        h \in BotHotelOutcomes, rs \in SearchRoomStays}
    \cup {NoOutcome}

Answer(tool_name, arguments, clarification_needed) ==
    [kind |-> "directive", tool_name |-> tool_name, arguments |-> arguments,
     clarification_needed |-> clarification_needed, api |-> "content"]

\* The arguments the language model can give a reservation: nothing, the guests
\* alone, guests and customer, and these with identifiers of its own: one no
\* search has produced, or the first one a search produces.
CreateArguments ==
    LET complete(k) == DictMerge(Dict1("guests", k), Dict1("customer", "c"))
        identifiers(id) == DictMerge(Dict1("booking_option_id", id),
                                     Dict1("guarantee_code", "GX"))
    IN  {EmptyDict, Dict1("guests", 1)}
        \cup {complete(k) : k \in 1..MaxGuests}
        \cup {identifiers(id) : id \in {UnknownOptionId}}
        \cup {DictMerge(complete(k), identifiers(id)) :
                 k \in {2}, id \in {UnknownOptionId, OptionId(1)}}

SearchArguments(date) ==
    {DictMerge(Dict1("check_in_date", date), Dict1("num_adults", n)) : n \in 1..2}

CancelArguments ==
    {Dict1("booking_number", "BN1"),
     DictMerge(Dict1("booking_number", "BN1"), Dict1("cancellation_code", "CC1"))}

HotelInfoArguments ==
    {EmptyDict, Dict1("hotel_code", DEFAULT_HOTEL_CODE), Dict1("language", "en")}

Step(llm, outcome) == [llm |-> llm, outcome |-> outcome]

\* One answer of the language model with the outcome of the call it leads to.
Steps ==
    {Step(get_llm_response("content",
                           [kind |-> k, tool_name |-> NoneVal, arguments |-> EmptyDict,
                            clarification_needed |-> NoneVal, api |-> "content"]),
          NoOutcome) :
        k \in {"none", "rate_limit", "malformed"}}
    \cup {Step(get_llm_response(api, <<>>), NoOutcome) : api \in LlmFailures \cup McpFailures}
    \cup {Step(Answer(t, EmptyDict, c), NoOutcome) :
             t \in {NoneVal, "null"}, c \in {NoneVal, "q", "meta", "null"}}
    \cup {Step(Answer(ToolCreate, a, NoneVal), o) : a \in CreateArguments, o \in ReserveOutcomes}
    \cup {Step(Answer(ToolCreate, a, "q"), NoOutcome) : a \in CreateArguments}
    \cup {Step(Answer(ToolSearch, a, NoneVal), o) :
             a \in SearchArguments(DateAhead), o \in SearchOutcomes}
    \cup {Step(Answer(ToolSearch, a, NoneVal), NoOutcome) :
             a \in {EmptyDict, Dict1("num_adults", 1),
                    DictMerge(Dict1("check_in_date", DateAhead), Dict1("num_adults", 0))}
                   \cup SearchArguments(DatePast) \cup SearchArguments(DateIllFormed)}
    \cup {Step(Answer(ToolSearch, Dict1("num_adults", 1), "q"), NoOutcome)}
    \cup {Step(Answer(ToolCancel, a, NoneVal), o) : a \in CancelArguments, o \in CancelOutcomes}
    \cup {Step(Answer(ToolHotelInfo, a, c), o) :
             a \in HotelInfoArguments, c \in {NoneVal, "meta"}, o \in HotelOutcomes}
    \cup {Step(Answer("send_email", Dict1("to", "x"), NoneVal), NoOutcome)}

\* The answers that make the turn ask the language model again: a hotel-info
\* directive without a clarification.
HotelInfoSteps ==
    {Step(Answer(ToolHotelInfo, Dict1("hotel_code", DEFAULT_HOTEL_CODE), NoneVal), o) :
        o \in {h \in HotelOutcomes : h.hotel.kind = "hotels"}}

RECURSIVE StepSeqs(_)
StepSeqs(n) ==
    IF n <= 1 THEN {<<st>> : st \in Steps}
    ELSE StepSeqs(n - 1) \cup {<<h>> \o q : h \in HotelInfoSteps, q \in StepSeqs(n - 1)}

TurnSteps == StepSeqs(MaxLlmCalls)

Init ==
    /\ BOOKING_OPTIONS_CACHE = EmptyDict
    /\ puts = 0
    /\ lastCall = NoCall
    /\ user_states = EmptyDict
    /\ lastTurn = NoTurn
    /\ HOTEL_INFO_CACHE = EmptyDict
    /\ now = 0
    /\ ticks = 0
    /\ lastHotelCall = NoHotelCall
    /\ hotelCalls = NoHotelCalls
    /\ HistoryIdle
    /\ FailureIdle
    /\ PollingIdle
    /\ SearchIdle
    /\ ClientsIdle

\* The values a turn of handler for user_id starts from.
World(handler, user_id) ==
    [user_states |-> get_or_init_state(user_states, user_id),
     BOOKING_OPTIONS_CACHE |-> BOOKING_OPTIONS_CACHE,
     puts |-> puts,
     HOTEL_INFO_CACHE |-> HOTEL_INFO_CACHE,
     lastCall |-> NoCall,
     turn |-> [NoTurn EXCEPT !.handler = handler, !.user = user_id,
                             !.action_before =
                                 get_or_init_state(user_states, user_id)[user_id].action]]

\* The turn is over: its values become the state.
Commit(w) ==
    /\ w.puts <= MaxPuts
    /\ user_states' = w.user_states
    /\ BOOKING_OPTIONS_CACHE' = w.BOOKING_OPTIONS_CACHE
    /\ puts' = w.puts
    /\ HOTEL_INFO_CACHE' = w.HOTEL_INFO_CACHE
    /\ lastCall' = w.lastCall
    /\ lastTurn' = w.turn
    /\ UNCHANGED <<now, ticks, lastHotelCall, hotelCalls, historyVars, failureVars, pollingVars, searchVars, clientVars>>

\* telegram_bot.py:292-294
handle_plain_text_messages_sync(user_id, steps) ==
    Commit(handle_text_messages_async(World("text", user_id), user_id, steps, FALSE))

\* telegram_bot.py:221-237: /start and /help
send_welcome_sync(user_id, steps) ==
    LET w == World("start", user_id)
        state == [reset_full_search_parameters(w.user_states[user_id], TRUE)
                  EXCEPT !.action = "start_command"]
    IN  Commit(handle_text_messages_async(Finish(w, user_id, state, 1), user_id, steps, TRUE))

\* telegram_bot.py:239-251: /findhotel
find_hotel_command_sync(user_id) ==
    LET w == World("findhotel", user_id)
        state == reset_full_search_parameters(
                     reset_user_action_and_search_context(w.user_states[user_id]), FALSE)
    IN  Commit(Finish(w, user_id,
                      [state EXCEPT !.action = USER_ACTION_AWAITING_CLARIFICATION], 1))

\* telegram_bot.py:259-290: /cancelbooking with its two arguments, or without
cancel_booking_start_sync(user_id, with_arguments, status) ==
    LET w == World("cancelbooking", user_id)
        state == w.user_states[user_id]
    IN  IF with_arguments
        THEN Commit(Finish([w EXCEPT !.turn.tool_executed = ToolCancel,
                                     !.turn.cancel_status = status], user_id,
                           [(IF status = "cancelled"
                             THEN reset_full_search_parameters(
                                      reset_user_action_and_search_context(state), TRUE)
                             ELSE state)
                            EXCEPT !.action = NoneVal], 2))
        ELSE Commit(Finish(w, user_id, [state EXCEPT !.action = NoneVal], 1))

\* telegram_bot.py:689-695: the button of an offer that is not among the
\* session's displayed options
CallbackBookOptionStale(user_id, option_id_from_callback) ==
    LET w == World("bookopt", user_id)
        state == w.user_states[user_id]
    IN  /\ option_id_from_callback \notin DOMAIN state.current_search_options_details
        /\ Commit(Finish(w, user_id, reset_user_action_and_search_context(state), 1))

\* Variant: the offer without a guarantee stays selected.
CallbackBookOptionWithoutGuaranteeKept(user_id, option_id_from_callback) ==
    LET w == World("bookopt", user_id)
        state == w.user_states[user_id]
    IN  /\ option_id_from_callback \in DOMAIN state.current_search_options_details
        /\ state.current_search_options_details[option_id_from_callback]
               .available_guarantees = <<>>
        /\ Commit(Finish(w, user_id,
                         [state EXCEPT !.selected_option_id = option_id_from_callback,
                                       !.action = NoneVal],
                         1))

\* telegram_bot.py:697-708: the button of a displayed offer without a guarantee
CallbackBookOptionWithoutGuarantee(user_id, option_id_from_callback) ==
    LET w == World("bookopt", user_id)
        state == w.user_states[user_id]
    IN  /\ option_id_from_callback \in DOMAIN state.current_search_options_details
        /\ state.current_search_options_details[option_id_from_callback]
               .available_guarantees = <<>>
        /\ Commit(Finish(w, user_id,
                         reset_user_action_and_search_context(
                             [state EXCEPT !.selected_option_id = option_id_from_callback]),
                         1))

\* telegram_bot.py:697-732: the button of a displayed offer: the offer and its
\* first guarantee are selected and the turn goes on as a text turn
CallbackBookOption(user_id, option_id_from_callback, steps) ==
    LET w == World("bookopt", user_id)
        state == w.user_states[user_id]
    IN  /\ option_id_from_callback \in DOMAIN state.current_search_options_details
        /\ state.current_search_options_details[option_id_from_callback]
               .available_guarantees # <<>>
        /\ Commit(handle_text_messages_async(
                      SetState(w, user_id,
                               [state EXCEPT
                                  !.selected_option_id = option_id_from_callback,
                                  !.selected_guarantee_code =
                                      state.current_search_options_details
                                          [option_id_from_callback].available_guarantees[1]]),
                      user_id, steps, FALSE))

\* telegram_bot.py:734-756: the button "cancel this booking"
CallbackCancel(user_id, well_formed, status) ==
    LET w == World("cancel_button", user_id)
        state == w.user_states[user_id]
    IN  IF well_formed
        THEN Commit(Finish([w EXCEPT !.turn.tool_executed = ToolCancel,
                                     !.turn.cancel_status = status], user_id,
                           [(IF status = "cancelled"
                             THEN reset_full_search_parameters(
                                      reset_user_action_and_search_context(state), TRUE)
                             ELSE state)
                            EXCEPT !.action = NoneVal], 1))
        ELSE Commit(SetState(w, user_id, [state EXCEPT !.action = NoneVal]))

\* telegram_bot.py:757-758: a button the bot does not know
CallbackOther(user_id) ==
    Commit(World("other_button", user_id))

\* telegram_bot.py:676-678
handle_callback_query_sync(user_id) ==
    \/ \E id \in DOMAIN BOOKING_OPTIONS_CACHE \cup {UnknownOptionId} :
          \/ CallbackBookOptionStale(user_id, id)
          \/ CallbackBookOptionWithoutGuarantee(user_id, id)
          \/ \E steps \in TurnSteps : CallbackBookOption(user_id, id, steps)
    \/ \E well_formed \in BOOLEAN, status \in CancelStatuses :
          CallbackCancel(user_id, well_formed, status)
    \/ CallbackOther(user_id)

\* telegram_bot.py:761-766: bot.polling takes the next update when the handler
\* of the last one has returned; the notes of the last step are dropped.
polling ==
    /\ lastTurn.handler # NoneVal \/ lastCall.made
    /\ lastTurn' = NoTurn
    /\ lastCall' = NoCall
    /\ UNCHANGED <<BOOKING_OPTIONS_CACHE, puts, user_states, hotelVars, historyVars, failureVars, pollingVars, searchVars, clientVars>>

Next ==
    \/ /\ Handled
       /\ \E user_id \in Users, steps \in TurnSteps :
             handle_plain_text_messages_sync(user_id, steps)
    \/ /\ Handled
       /\ \E user_id \in Users, steps \in TurnSteps : send_welcome_sync(user_id, steps)
    \/ /\ Handled
       /\ \E user_id \in Users : find_hotel_command_sync(user_id)
    \/ /\ Handled
       /\ \E user_id \in Users, with_arguments \in BOOLEAN, status \in CancelStatuses :
             cancel_booking_start_sync(user_id, with_arguments, status)
    \/ /\ Handled
       /\ \E user_id \in Users : handle_callback_query_sync(user_id)
    \/ /\ Handled
       /\ \E id \in DOMAIN BOOKING_OPTIONS_CACHE \cup {UnknownOptionId},
             k \in 0..MaxGuests, provider \in ProviderReserveOutcomes :
               McpCreateReservation(id, k, provider)
    \/ polling

Spec == Init /\ [][Next]_vars

(***************************************************************************)
(* HotelSpec: get_hotel_details_from_api, called by the hotel-info tool    *)
(* (tools.py:106) and by the search (tools.py:166), against a clock.       *)
(***************************************************************************)
\* The clock moves by a second or by an hour less a second, so that an entry
\* is met at an age just under, exactly at and just over one hour.
ClockSteps == {1, HOTEL_CACHE_TTL - 1}

HotelInit ==
    /\ HOTEL_INFO_CACHE = <<>>
    /\ now = 0
    /\ ticks = 0
    /\ lastHotelCall = NoHotelCall
    /\ hotelCalls = NoHotelCalls
    /\ HistoryIdle
    /\ FailureIdle
    /\ PollingIdle
    /\ SearchIdle
    /\ ClientsIdle
    /\ BOOKING_OPTIONS_CACHE = <<>>
    /\ puts = 0
    /\ lastCall = NoCall
    /\ user_states = EmptyDict
    /\ lastTurn = NoTurn

HotelDetailsCall(hotel_code, language, outcome) ==
    LET r == get_hotel_details_from_api(HOTEL_INFO_CACHE, hotel_code, language, now, outcome)
    IN
    /\ lastHotelCall' =
           [made |-> TRUE, hotel_code |-> hotel_code, language |-> language,
            at |-> now, cache_before |-> HOTEL_INFO_CACHE, outcome |-> outcome,
            result |-> r]
    /\ HOTEL_INFO_CACHE' = r.cache
    /\ UNCHANGED <<now, ticks, hotelCalls, offerVars, botVars, historyVars, failureVars, pollingVars, searchVars, clientVars>>

ClockAdvance(d) ==
    /\ ticks < MaxClockTicks
    /\ now' = now + d
    /\ ticks' = ticks + 1
    /\ UNCHANGED <<HOTEL_INFO_CACHE, lastHotelCall, hotelCalls, offerVars, botVars, historyVars, failureVars, pollingVars, searchVars, clientVars>>

HotelNext ==
    \/ \E hotel_code \in HotelCodes, language \in Languages :
          \E outcome \in HotelInfoOutcomes(hotel_code, language) :
              HotelDetailsCall(hotel_code, language, outcome)
    \/ \E d \in ClockSteps : ClockAdvance(d)

HotelSpec == HotelInit /\ [][HotelNext]_vars

(***************************************************************************)
(* HotelOverlapSpec: get_hotel_details_from_api as coroutines of one event *)
(* loop (the MCP server of main.py runs the async tool functions of        *)
(* concurrent requests on it).  A coroutine runs without interruption from *)
(* one await to the next: the awaits are client.get_hotel_info (tools.py   *)
(* line 77) and client.close in the finally clause (line 101).  The clock  *)
(* stands still while the calls overlap.                                   *)
(***************************************************************************)
\* What the call just returned, with the cache as it is at that moment.
HotelReturn(c, call, fetch_calls) ==
    [made |-> TRUE, hotel_code |-> call.hotel_code, language |-> call.language,
     at |-> now, cache_before |-> call.cache_before, outcome |-> call.outcome,
     result |-> HotelCallResult(call.returned, call.value, HOTEL_INFO_CACHE, fetch_calls)]

\* tools.py:54-77: the call looks into the cache; a fresh valid entry is
\* returned at once, otherwise the entry is popped and the provider is awaited.
HotelCallBegin(c, hotel_code, language) ==
    LET cached == hotel_code \in DOMAIN HOTEL_INFO_CACHE
        cached_entry == HOTEL_INFO_CACHE[hotel_code]
        v == HotelInfoHotelDetail_model_validate(data_to_parse(cached_entry))
        call == [IdleHotelCall EXCEPT !.hotel_code = hotel_code, !.language = language,
                                      !.cache_before = HOTEL_INFO_CACHE]
    IN
    /\ hotelCalls[c].pc = "idle"
    /\ IF cached /\ IsFresh(now - cached_entry[CachedAtKey]) /\ v.ok
       THEN /\ lastHotelCall' =
                   HotelReturn(c, [call EXCEPT !.returned = TRUE, !.value = v.obj], 0)
            /\ UNCHANGED <<HOTEL_INFO_CACHE, hotelCalls>>
       ELSE /\ HOTEL_INFO_CACHE' = DictPop(HOTEL_INFO_CACHE, hotel_code)
            /\ hotelCalls' = [hotelCalls EXCEPT ![c] = [call EXCEPT !.pc = "get_hotel_info"]]
            /\ UNCHANGED lastHotelCall
    /\ UNCHANGED <<now, ticks, offerVars, botVars, historyVars, failureVars, pollingVars, searchVars, clientVars>>

\* tools.py:77-99: the provider's answer arrives; a valid one is stored in the
\* cache as it is now; then the finally clause awaits client.close.
HotelCallResume(c, outcome) ==
    LET call == hotelCalls[c]
        r == FetchHotelDetails(HOTEL_INFO_CACHE, call.hotel_code, now, outcome)
    IN
    /\ call.pc = "get_hotel_info"
    /\ HOTEL_INFO_CACHE' = r.cache
    /\ hotelCalls' = [hotelCalls EXCEPT ![c] =
                         [call EXCEPT !.pc = "close", !.outcome = outcome,
                                      !.returned = r.returned, !.value = r.value]]
    /\ UNCHANGED <<now, ticks, lastHotelCall, offerVars, botVars, historyVars, failureVars, pollingVars, searchVars, clientVars>>

\* tools.py:100-101: client.close is done and the call returns.
HotelCallReturn(c) ==
    /\ hotelCalls[c].pc = "close"
    /\ lastHotelCall' = HotelReturn(c, hotelCalls[c], 1)
    /\ hotelCalls' = [hotelCalls EXCEPT ![c] = IdleHotelCall]
    /\ UNCHANGED <<HOTEL_INFO_CACHE, now, ticks, offerVars, botVars, historyVars, failureVars, pollingVars, searchVars, clientVars>>

HotelOverlapNext ==
    \/ \E c \in HotelCallIds, hotel_code \in HotelCodes, language \in Languages :
          HotelCallBegin(c, hotel_code, language)
    \/ \E c \in HotelCallIds :
          \E outcome \in HotelInfoOutcomes(hotelCalls[c].hotel_code, hotelCalls[c].language) :
              HotelCallResume(c, outcome)
    \/ \E c \in HotelCallIds : HotelCallReturn(c)

HotelOverlapSpec == HotelInit /\ [][HotelOverlapNext]_vars

(***************************************************************************)
(* HistorySpec: the dialog history of one user under add_to_dialog_history *)
(* (telegram_bot.py:135-143) and /start (telegram_bot.py:227), for the     *)
(* lengths the settings can give (config.py:28, an int read from the       *)
(* environment without a lower limit).                                     *)
(***************************************************************************)
MaxHistoryLength == 3
MaxOffered == 5

\* The roles and contents of the entries offered.
HistoryRoles == {"user", "assistant"}
HistoryContents == {"a", "b"}

HistoryInit ==
    /\ BOOKING_OPTIONS_CACHE = EmptyDict
    /\ puts = 0
    /\ lastCall = NoCall
    /\ user_states = EmptyDict
    /\ lastTurn = NoTurn
    /\ HOTEL_INFO_CACHE = EmptyDict
    /\ now = 0
    /\ ticks = 0
    /\ lastHotelCall = NoHotelCall
    /\ hotelCalls = NoHotelCalls
    /\ LLM_DIALOG_HISTORY_LENGTH \in 0..MaxHistoryLength
    /\ llm_dialog_turns = <<>>
    /\ offered = <<>>
    /\ FailureIdle
    /\ PollingIdle
    /\ SearchIdle
    /\ ClientsIdle

\* One call of add_to_dialog_history(user_id, role, content).
AddToDialogHistory(role, content) ==
    /\ Len(offered) < MaxOffered
    /\ llm_dialog_turns' = add_to_dialog_history(llm_dialog_turns, role, content,
                                                 LLM_DIALOG_HISTORY_LENGTH)
    /\ offered' = Append(offered, DialogTurn(role, content))
    /\ UNCHANGED <<LLM_DIALOG_HISTORY_LENGTH, offerVars, botVars, hotelVars, failureVars, pollingVars, searchVars, clientVars>>

\* telegram_bot.py:227: /start and /help empty the history.
StartClearsHistory ==
    /\ offered # <<>>
    /\ llm_dialog_turns' = <<>>
    /\ offered' = <<>>
    /\ UNCHANGED <<LLM_DIALOG_HISTORY_LENGTH, offerVars, botVars, hotelVars, failureVars, pollingVars, searchVars, clientVars>>

HistoryNext ==
    \/ \E role \in HistoryRoles, content \in HistoryContents :
           AddToDialogHistory(role, content)
    \/ StartClearsHistory

HistorySpec == HistoryInit /\ [][HistoryNext]_vars

(***************************************************************************)
(* ProviderFailureSpec: one failure of the provider during a search, a     *)
(* reservation or a cancellation, in two runs that differ in nothing but   *)
(* the provider's error text.                                              *)
(***************************************************************************)
ProviderErrorTexts == {"e1", "e2", "e3"}
ProviderOperations == {"search", "reservation", "cancellation"}
\* A network error, an HTTP error status, errors inside a 200 answer.
ProviderFailureKinds ==
    {[kind |-> "network", status_code |-> NoneVal],
     [kind |-> "http_status", status_code |-> "400"],
     [kind |-> "http_status", status_code |-> "500"],
     [kind |-> "embedded", status_code |-> "200"]}

ProviderFailureInit ==
    /\ BOOKING_OPTIONS_CACHE = EmptyDict
    /\ puts = 0
    /\ lastCall = NoCall
    /\ user_states = EmptyDict
    /\ lastTurn = NoTurn
    /\ HOTEL_INFO_CACHE = EmptyDict
    /\ now = 0
    /\ ticks = 0
    /\ lastHotelCall = NoHotelCall
    /\ hotelCalls = NoHotelCalls
    /\ HistoryIdle
    /\ \E operation \in ProviderOperations, k \in ProviderFailureKinds,
          t1 \in ProviderErrorTexts, t2 \in ProviderErrorTexts :
           providerFailure = [operation |-> operation, kind |-> k.kind,
                              status_code |-> k.status_code, error_texts |-> <<t1, t2>>]
    /\ userMessages = <<>>
    /\ clientCall = NoClientCall
    /\ PollingIdle
    /\ SearchIdle
    /\ ClientsIdle

\* The failure is reported to the user, in each of the two runs.
ReportProviderFailure ==
    /\ userMessages = <<>>
    /\ userMessages' = <<MessageForFailure(providerFailure, providerFailure.error_texts[1]),
                         MessageForFailure(providerFailure, providerFailure.error_texts[2])>>
    /\ UNCHANGED <<providerFailure, clientCall, offerVars, botVars, hotelVars, historyVars,
                   pollingVars, searchVars, clientVars>>

ProviderFailureNext == ReportProviderFailure

ProviderFailureSpec == ProviderFailureInit /\ [][ProviderFailureNext]_vars

(***************************************************************************)
(* ClientSpec: the four operations of the client against every answer of   *)
(* the HTTP layer within the bounds.                                       *)
(***************************************************************************)
HttpStatuses == {"200", "404", "500"}
HttpAnswers ==
    {HttpAnswer("RequestError", NoneVal, NoneVal, <<>>, FALSE)}
    \cup {HttpAnswer("response", status_code, "not_json", <<>>, FALSE) :
            status_code \in HttpStatuses}
    \cup {HttpAnswer("response", status_code, "object", errors, well_formed) :
            status_code \in HttpStatuses,
            errors \in SeqsUpTo(ProviderErrorTexts, MaxErrors),
            well_formed \in BOOLEAN}

ClientInit ==
    /\ BOOKING_OPTIONS_CACHE = EmptyDict
    /\ puts = 0
    /\ lastCall = NoCall
    /\ user_states = EmptyDict
    /\ lastTurn = NoTurn
    /\ HOTEL_INFO_CACHE = EmptyDict
    /\ now = 0
    /\ ticks = 0
    /\ lastHotelCall = NoHotelCall
    /\ hotelCalls = NoHotelCalls
    /\ HistoryIdle
    /\ FailureIdle
    /\ PollingIdle
    /\ SearchIdle
    /\ ClientsIdle

ClientCall(operation, answer) ==
    /\ clientCall' = [operation |-> operation, answer |-> answer,
                      result |-> ClientResultOf(operation, answer), made |-> TRUE]
    /\ UNCHANGED <<providerFailure, userMessages, offerVars, botVars, hotelVars,
                   historyVars, pollingVars, searchVars, clientVars>>

ClientNext ==
    \E operation \in ClientOperations, answer \in HttpAnswers :
        ClientCall(operation, answer)

ClientSpec == ClientInit /\ [][ClientNext]_vars

(***************************************************************************)
(* GuestAgeSpec: the reservation tool on the offers that mix adult and     *)
(* child groups, called once with guest records that are adults or         *)
(* children                                                                *)
(* (GuestDetailLLM: is_child and age, schemas_llm.py:89-104).              *)
(***************************************************************************)
GuestDetailLLM(first_name, is_child, age) ==
    [first_name |-> first_name, is_child |-> is_child, age |-> age]

\* An adult, a child of 5, a child of 9; a child carries its age (the
\* validator of schemas_llm.py:97-103).
GuestDetails ==
    {GuestDetailLLM("g", FALSE, {}), GuestDetailLLM("g", TRUE, {5}),
     GuestDetailLLM("g", TRUE, {9})}

GuestAgeInit ==
    /\ \E o \in AgeOffers : BOOKING_OPTIONS_CACHE = [id \in {"opt1"} |-> o]
    /\ puts = 1
    /\ lastCall = NoCall
    /\ user_states = EmptyDict
    /\ lastTurn = NoTurn
    /\ HOTEL_INFO_CACHE = <<>>
    /\ now = 0
    /\ ticks = 0
    /\ lastHotelCall = NoHotelCall
    /\ hotelCalls = NoHotelCalls
    /\ HistoryIdle
    /\ FailureIdle
    /\ PollingIdle
    /\ SearchIdle
    /\ ClientsIdle

\* main.py:58: create_exely_reservation_and_get_link invoked by an MCP client
\* with the guest records it chose.
McpCreateReservationOfGuests(guests) ==
    LET params == [booking_option_id |-> "opt1", guests |-> guests,
                   guarantee_code |-> "G1"]
    IN
    /\ ~lastCall.made
    /\ lastCall' = CallRecord("mcp", params, BOOKING_OPTIONS_CACHE,
                        create_exely_reservation_and_get_link(
                            BOOKING_OPTIONS_CACHE, params, "reserved"))
    /\ BOOKING_OPTIONS_CACHE' = CacheGet(BOOKING_OPTIONS_CACHE, "opt1").cache
    /\ UNCHANGED <<puts, botVars, hotelVars, historyVars, failureVars, pollingVars, searchVars, clientVars>>

GuestAgeNext ==
    \E guests \in SeqsUpTo(GuestDetails, MaxGuests) :
        McpCreateReservationOfGuests(guests)

GuestAgeSpec == GuestAgeInit /\ [][GuestAgeNext]_vars

(***************************************************************************)
(* PollingSpec: the polling loop of the bot and the handler it calls, one  *)
(* step per suspension of the handler.                                     *)
(* telegram_bot.py:81 builds the bot with threaded=False, so bot.polling   *)
(* (761-766) calls each handler in the polling thread itself; the handler  *)
(* (292-294) is asyncio.run(handle_text_messages_async(message)), which    *)
(* returns when the coroutine has returned.  The coroutine suspends at the *)
(* call of the interpreter (316) and at the call of a tool (398, ...).     *)
(***************************************************************************)
ChatIds == {"u1", "u2"}
\* The updates Telegram holds for the bot at one time.
MaxUpdates == 2
\* sys.getrecursionlimit(), counted in nested calls of handle_text_messages_async:
\* the one limit on the calls of telegram_bot.py:451.
RecursionLimit == 3

\* What the interpreter returns (telegram_bot.py:316): no tool, the hotel tool,
\* any other tool.
LlmDirectives == {"clarification_needed", "get_hotel_public_info",
                  "get_exely_booking_options"}

Handler(chat, at, tool, depth) == [chat |-> chat, at |-> at, tool |-> tool, depth |-> depth]

PollingInit ==
    /\ BOOKING_OPTIONS_CACHE = EmptyDict
    /\ puts = 0
    /\ lastCall = NoCall
    /\ user_states = EmptyDict
    /\ lastTurn = NoTurn
    /\ HOTEL_INFO_CACHE = EmptyDict
    /\ now = 0
    /\ ticks = 0
    /\ lastHotelCall = NoHotelCall
    /\ hotelCalls = NoHotelCalls
    /\ HistoryIdle
    /\ FailureIdle
    /\ PollingIdle
    /\ SearchIdle
    /\ ClientsIdle

PollingUnchanged ==
    UNCHANGED <<offerVars, botVars, hotelVars, historyVars, failureVars, searchVars, clientVars>>

\* A user sends the bot a message: Telegram holds it until the bot asks.
MessageArrives(chat) ==
    /\ Len(dispatch.updates) < MaxUpdates
    /\ dispatch' = [dispatch EXCEPT !.updates = Append(@, chat)]
    /\ PollingUnchanged

\* telegram_bot.py:761-766, 292-294: the polling loop takes the next update and
\* calls its handler; it is in the handler until asyncio.run returns.  The
\* handler runs to its first await, the call of the interpreter (316).
process_new_updates ==
    /\ dispatch.handler = NoHandler
    /\ dispatch.updates # <<>>
    /\ dispatch' = [dispatch EXCEPT
                        !.updates = Tail(@),
                        !.handler = Handler(Head(dispatch.updates),
                                            "call_mcp_tool_orchestrator", NoneVal, 0),
                        !.ended = NoneVal]
    /\ PollingUnchanged

\* The handler returns to the polling loop (every return of 296-672).
HandlerReturns(how) ==
    [dispatch EXCEPT !.handler = NoHandler, !.ended = how,
                     !.handled = @ \cup {dispatch.handler.chat}]

\* telegram_bot.py:316-386: the interpreter answers.  Without a tool the turn
\* ends with a message; with a tool the handler goes on to its call.
LlmReturns(directive) ==
    /\ dispatch.handler.at = "call_mcp_tool_orchestrator"
    /\ dispatch' =
         IF directive = "clarification_needed"
         THEN HandlerReturns("returned")
         ELSE [dispatch EXCEPT !.handler.at = "tool", !.handler.tool = directive]
    /\ PollingUnchanged

\* telegram_bot.py:398-455 and 456-672: the tool answers.  After a hotel found
\* the handler calls itself with a message it builds (451), whatever the
\* number of calls already nested; that call runs to the call of the
\* interpreter.  When the nesting reaches the interpreter's limit the call
\* raises RecursionError, which line 520 catches as a failure of the tool.
ToolReturns(found) ==
    /\ dispatch.handler.at = "tool"
    /\ dispatch' =
         IF dispatch.handler.tool = "get_hotel_public_info" /\ found
         THEN IF dispatch.handler.depth + 1 >= RecursionLimit
              THEN HandlerReturns("RecursionError")
              ELSE [dispatch EXCEPT !.handler.at = "call_mcp_tool_orchestrator",
                                    !.handler.tool = NoneVal,
                                    !.handler.depth = @ + 1]
         ELSE HandlerReturns("returned")
    /\ PollingUnchanged

PollingNext ==
    \/ \E chat \in ChatIds : MessageArrives(chat)
    \/ process_new_updates
    \/ \E directive \in LlmDirectives : LlmReturns(directive)
    \/ \E found \in BOOLEAN : ToolReturns(found)

PollingSpec == PollingInit /\ [][PollingNext]_vars

(***************************************************************************)
(* SearchReserveSpec: an MCP client searches once and then reserves one of *)
(* the stored offers (main.py:57-58 registers both tools).  The provider   *)
(* answers the search with room stays for one, two or three guests.        *)
(***************************************************************************)
BotOfferForThree ==
    Offer(<<[placements |-> <<P(0, "A")>>]>>, <<Adults(0, 3)>>, <<"RP">>, <<"G1">>)
SearchedOffers == {BotOfferForOne, BotOfferForTwo, BotOfferForThree}

\* HotelAvailabilityToolParams (schemas_llm.py:69-83): num_adults is at least 1,
\* children_ages is a list, empty when none is given.
McpSearchArguments ==
    {DictMerge(DictMerge(Dict1("check_in_date", DateAhead), Dict1("num_adults", n)),
               Dict1("children_ages", ages)) :
        n \in 1..2, ages \in SeqsUpTo({5}, 1)}

SearchReserveInit ==
    /\ BOOKING_OPTIONS_CACHE = EmptyDict
    /\ puts = 0
    /\ lastCall = NoCall
    /\ user_states = EmptyDict
    /\ lastTurn = NoTurn
    /\ HOTEL_INFO_CACHE = EmptyDict
    /\ now = 0
    /\ ticks = 0
    /\ lastHotelCall = NoHotelCall
    /\ hotelCalls = NoHotelCalls
    /\ HistoryIdle
    /\ FailureIdle
    /\ PollingIdle
    /\ SearchIdle
    /\ ClientsIdle

\* main.py:57: get_exely_booking_options invoked by an MCP client.
McpGetBookingOptions(params, room_stays) ==
    LET outcome == [NoOutcome EXCEPT !.kind = "room_stays", !.room_stays = room_stays]
        r == get_exely_booking_options(BOOKING_OPTIONS_CACHE, puts, HOTEL_INFO_CACHE,
                                       params, now, outcome)
    IN
    /\ ~lastSearch.made
    /\ BOOKING_OPTIONS_CACHE' = r.cache
    /\ puts' = r.puts
    /\ HOTEL_INFO_CACHE' = r.hotel_cache
    /\ lastSearch' = [made |-> TRUE, params |-> params,
                      option_ids |-> {r.results[i].option_id : i \in 1..Len(r.results)}
                                     \ SentinelOptionIds]
    /\ UNCHANGED <<lastCall, botVars, now, ticks, lastHotelCall, hotelCalls, historyVars,
                   failureVars, pollingVars, clientVars>>

SearchReserveNext ==
    \/ \E params \in McpSearchArguments, room_stays \in SeqsUpTo(SearchedOffers, MaxPuts) :
          McpGetBookingOptions(params, room_stays)
    \/ \E id \in lastSearch.option_ids, k \in 0..MaxGuests :
          McpCreateReservation(id, k, "reserved")

SearchReserveSpec == SearchReserveInit /\ [][SearchReserveNext]_vars

(***************************************************************************)
(* ClientLifeSpec: the provider clients of the tool functions.  Every tool *)
(* function makes its own ExelyDistributionApiClient with get_exely_client *)
(* (tools.py:49-50; the constructor opens an httpx.AsyncClient,            *)
(* client.py:71) and closes it with client.close (client.py:351-353) in    *)
(* the finally clause of the try statement around its provider call.  A    *)
(* tool call is one step; the clock stands still.                          *)
(***************************************************************************)
OfferWithoutRoomTypes == Offer(<<>>, <<Adults(0, 2)>>, <<"RP">>, <<"G1">>)
ClientLifeOffers == {BotOfferForTwo, BotOfferWithoutRatePlan, OfferWithoutRoomTypes}

ClientLifeSearchArguments ==
    {DictMerge(Dict1("check_in_date", d), Dict1("num_adults", 2)) :
        d \in {DateAhead, DatePast, DateIllFormed}}

ClientLifeSearchOutcomes ==
    {[NoOutcome EXCEPT !.hotel = h, !.kind = "room_stays", !.room_stays = rs] :
        h \in BotHotelOutcomes, rs \in SeqsUpTo(ClientLifeOffers, 1)}
    \cup {[NoOutcome EXCEPT !.hotel = h] : h \in BotHotelOutcomes}

ToolCall(tool, path, opened, closed) ==
    [tool |-> tool, path |-> path, opened |-> opened, closed |-> closed]

\* The clients after a tool call that made `opened` of them and closed `closed`.
ClientsAfter(call) == [open |-> clients.open + call.opened - call.closed, call |-> call]

\* tools.py:54-101: a fresh valid entry is returned before line 73 makes a
\* client; otherwise the client of line 73 is closed by the finally clause of
\* lines 100-101, whatever the provider answered.
HotelDetailsClients(r) ==
    ToolCall("get_hotel_details_from_api",
             IF r.fetch_calls = 0 THEN "cached" ELSE IF r.returned THEN "fetched" ELSE "failed",
             r.fetch_calls, r.fetch_calls)

\* tools.py:166-222: the hotel details are looked up with a client of their own;
\* line 185 makes the client of the search; the dates are checked at lines
\* 190-199, whose return is outside the try statement of lines 216-222 that
\* closes the client.
BookingOptionsClients(hotel_details, params, r) ==
    ToolCall(ToolSearch,
             IF params.check_in_date # DateAhead THEN "invalid_dates"
             ELSE IF r.results[1].option_id \in SentinelOptionIds
                  THEN r.results[1].option_id ELSE "options",
             hotel_details.fetch_calls + 1,
             hotel_details.fetch_calls
                 + (IF params.check_in_date # DateAhead THEN 0 ELSE 1))

\* tools.py:369-495: line 369 makes the client before the offer is read; the
\* only client.close is in the finally clause of the try statement around
\* client.create_hotel_reservation (lines 479-495).
ReservationClients(r) ==
    ToolCall(ToolCreate,
             IF r.raised # NoneVal THEN r.raised
             ELSE IF r.status = "error" THEN r.error ELSE r.status,
             1, IF r.reserve_called THEN 1 ELSE 0)

\* tools.py:522-557: the client of line 522 is closed by the finally clause of
\* lines 556-557 on every path.
CancelClients(status) == ToolCall(ToolCancel, status, 1, 1)

ClientLifeInit ==
    /\ BOOKING_OPTIONS_CACHE = EmptyDict
    /\ puts = 0
    /\ lastCall = NoCall
    /\ user_states = EmptyDict
    /\ lastTurn = NoTurn
    /\ HOTEL_INFO_CACHE = EmptyDict
    /\ now = 0
    /\ ticks = 0
    /\ lastHotelCall = NoHotelCall
    /\ hotelCalls = NoHotelCalls
    /\ HistoryIdle
    /\ FailureIdle
    /\ PollingIdle
    /\ SearchIdle
    /\ ClientsIdle

ClientLifeUnchanged ==
    UNCHANGED <<lastCall, botVars, now, ticks, lastHotelCall, hotelCalls, historyVars,
                failureVars, pollingVars, searchVars>>

\* main.py:56 / tools.py:104-110: get_hotel_public_info looks the details up.
ToolGetHotelDetails(hotel_code, language, outcome) ==
    LET r == get_hotel_details_from_api(HOTEL_INFO_CACHE, hotel_code, language, now, outcome)
    IN
    /\ clients.open < MaxOpenClients
    /\ HOTEL_INFO_CACHE' = r.cache
    /\ clients' = ClientsAfter(HotelDetailsClients(r))
    /\ UNCHANGED <<BOOKING_OPTIONS_CACHE, puts>>
    /\ ClientLifeUnchanged

\* main.py:57: get_exely_booking_options.
ToolGetBookingOptions(params, outcome) ==
    LET hotel_details ==
            get_hotel_details_from_api(HOTEL_INFO_CACHE, DEFAULT_HOTEL_CODE,
                                       DEFAULT_LANGUAGE_LLM, now, outcome.hotel)
        r == get_exely_booking_options(BOOKING_OPTIONS_CACHE, puts, HOTEL_INFO_CACHE,
                                       params, now, outcome)
    IN
    /\ clients.open < MaxOpenClients
    /\ r.puts <= MaxPuts
    /\ BOOKING_OPTIONS_CACHE' = r.cache
    /\ puts' = r.puts
    /\ HOTEL_INFO_CACHE' = r.hotel_cache
    /\ clients' = ClientsAfter(BookingOptionsClients(hotel_details, params, r))
    /\ ClientLifeUnchanged

\* main.py:58: create_exely_reservation_and_get_link.
ToolCreateReservation(id, k, provider) ==
    LET params == [booking_option_id |-> id, guests |-> GuestList(k),
                   guarantee_code |-> "G1"]
        r == create_exely_reservation_and_get_link(BOOKING_OPTIONS_CACHE, params, provider)
    IN
    /\ clients.open < MaxOpenClients
    /\ BOOKING_OPTIONS_CACHE' = CacheGet(BOOKING_OPTIONS_CACHE, id).cache
    /\ clients' = ClientsAfter(ReservationClients(r))
    /\ UNCHANGED <<puts, HOTEL_INFO_CACHE>>
    /\ ClientLifeUnchanged

\* main.py:59: cancel_exely_reservation.
ToolCancelReservation(status) ==
    /\ clients.open < MaxOpenClients
    /\ clients' = ClientsAfter(CancelClients(status))
    /\ UNCHANGED <<BOOKING_OPTIONS_CACHE, puts, HOTEL_INFO_CACHE>>
    /\ ClientLifeUnchanged

ClientLifeNext ==
    \/ \E hotel_code \in {DEFAULT_HOTEL_CODE}, language \in {DEFAULT_LANGUAGE_LLM} :
          \E outcome \in BotHotelOutcomes :
              ToolGetHotelDetails(hotel_code, language, outcome)
    \/ \E params \in ClientLifeSearchArguments, outcome \in ClientLifeSearchOutcomes :
          ToolGetBookingOptions(params, outcome)
    \/ \E id \in DOMAIN BOOKING_OPTIONS_CACHE \cup {UnknownOptionId}, k \in 1..MaxGuests,
          provider \in ProviderReserveOutcomes :
              ToolCreateReservation(id, k, provider)
    \/ \E status \in CancelStatuses : ToolCancelReservation(status)

ClientLifeSpec == ClientLifeInit /\ [][ClientLifeNext]_vars

(***************************************************************************)
(*                              The claims                                 *)
(***************************************************************************)
\* The offer the latest reservation call read, and what it was called with.
CalledId == lastCall.params.booking_option_id
CalledHit == lastCall.made /\ CalledId \in DOMAIN lastCall.cache_before
CalledOffer == lastCall.cache_before[CalledId]
CalledGuests == lastCall.params.guests
CalledResult == lastCall.result
CalledPlacements == CalledOffer.room_types[1].placements

RECURSIVE DeclaredCapacity(_)
\* The sum of the guest-group counts of an offer's guest list.
DeclaredCapacity(gs) ==
    IF Len(gs) = 0 THEN 0 ELSE gs[Len(gs)].count + DeclaredCapacity(SubSeq(gs, 1, Len(gs) - 1))

\* C1 (MapperSpec): a reservation call on a cached offer with a guest list whose
\* length differs from the offer's declared capacity returns status "error" with
\* an empty booking number for the reason of the guest-count mismatch, raises
\* nothing, makes no provider call, binds no guest (no truncation, no padding),
\* and the cache entry is still there with the same content.
C1_GuestCountMismatchIsHardFailure ==
    (CalledHit /\ Len(CalledGuests) # DeclaredCapacity(CalledOffer.guests))
    => /\ CalledResult.status = "error"
       /\ CalledResult.booking_number = ""
       /\ CalledResult.error = "guest_count_mismatch"
       /\ CalledResult.raised = NoneVal
       /\ ~CalledResult.reserve_called
       /\ ~CalledResult.steps.payload
       /\ CalledResult.steps.guests = <<>>
       /\ CacheGet(BOOKING_OPTIONS_CACHE, CalledId).hit
       /\ CacheGet(BOOKING_OPTIONS_CACHE, CalledId).value = CalledOffer

\* C1 witness: a call with two guests on an offer that declares three.
C1_Witness ==
    /\ CalledHit
    /\ Len(CalledGuests) = 2
    /\ DeclaredCapacity(CalledOffer.guests) = 3
    /\ CalledResult.error = "guest_count_mismatch"

\* C3 (MapperSpec), as claimed: whenever the mapper has re-indexed an offer with
\* n placements, the map from original placement codes to new indices sends the
\* code of the i-th placement to i, for every i in 1..n: every new index belongs
\* to one original placement and no two placements share a new index.
C3_ReindexingIsBijection ==
    (CalledHit /\ CalledResult.steps.reindexed)
    => LET n == Len(CalledPlacements)
           m == CalledResult.steps.idx_map
       IN  /\ Len(CalledResult.steps.rt_placements) = n
           /\ \A i \in 1..n : CalledResult.steps.rt_placements[i].index = i
           /\ \A i \in 1..n : m[CalledPlacements[i].code] = i

\* C3 witness of the failure: two placements share code "A", one adult on each;
\* the payload is sent with both guests on new index 2 and none on index 1.
C3_SharedCodeCollapse ==
    /\ CalledHit
    /\ CalledResult.steps.reindexed
    /\ CalledPlacements = <<P(0, "A"), P(2, "A")>>
    /\ Len(CalledOffer.guests) = 2
    /\ CalledOffer.guests[1].placement_index = 0
    /\ CalledOffer.guests[2].placement_index = 2
    /\ CalledOffer.guests[1].count = 1
    /\ CalledOffer.guests[2].count = 1
    /\ CalledResult.reserve_called
    /\ CalledResult.steps.idx_map = [c \in {"A"} |-> 2]
    /\ \A g \in 1..Len(CalledResult.steps.guests) :
          CalledResult.steps.guests[g].placement_index = 2

\* C4 (MapperSpec): in every payload produced, every guest references an index
\* of the payload's placement list, the guests referencing index i are as many
\* as the guest-count entry for i says (none when there is no entry), the i-th
\* supplied guest is the i-th guest of the payload and holds the i-th slot, and
\* with a single placement every guest references index 1.
C4_GuestsReferencePlacements ==
    (lastCall.made /\ CalledResult.steps.payload)
    => LET st == CalledResult.steps
           refs(i) == {g \in 1..Len(st.guests) : st.guests[g].placement_index = i}
           entries(i) == {e \in 1..Len(st.guest_counts) :
                             st.guest_counts[e].placement_index = i}
       IN  /\ Len(st.guests) = Len(CalledGuests)
           /\ \A g \in 1..Len(st.guests) :
                 /\ st.guests[g].first_name = CalledGuests[g].first_name
                 /\ st.guests[g].placement_index = st.slots[g]
                 /\ \E p \in 1..Len(st.rt_placements) :
                       st.rt_placements[p].index = st.guests[g].placement_index
           /\ \A i \in 1..Len(st.rt_placements) :
                 /\ Cardinality(entries(i)) <= 1
                 /\ \A e \in entries(i) :
                       Cardinality(refs(i)) = st.guest_counts[e].count
                 /\ entries(i) = {} => refs(i) = {}
           /\ Len(CalledPlacements) = 1
              => \A g \in 1..Len(st.guests) : st.guests[g].placement_index = 1

\* C4 witness: Scenario A with a placement whose original index is 2: one
\* placement, one adult group of two, two guests, both on new index 1.
C4_Witness ==
    /\ lastCall.made
    /\ CalledResult.steps.payload
    /\ CalledPlacements = <<P(2, "A")>>
    /\ Len(CalledOffer.guests) = 1
    /\ CalledOffer.guests[1].count = 2
    /\ Len(CalledResult.steps.guests) = 2
    /\ CalledResult.status = "confirmed"

\* C4 witness of the general case: a payload over two placements with guests on both.
C4_WitnessTwoPlacements ==
    /\ lastCall.made
    /\ CalledResult.steps.payload
    /\ {CalledResult.steps.guests[g].placement_index :
            g \in 1..Len(CalledResult.steps.guests)} = {1, 2}

\* C5 (MapperSpec): once the guest-count check and the placement lookup have
\* passed, the flat slot list has as many entries as the offer declares guests,
\* and no call ends in the slot-assignment internal error.
C5_SlotListHasCapacityLength ==
    lastCall.made
    => /\ CalledResult.error # "slot_assignment_internal"
       /\ CalledResult.steps.slots_built
          => Len(CalledResult.steps.slots) = DeclaredCapacity(CalledOffer.guests)

\* C5 witness: two guest groups aggregated under one placement, three guests.
C5_Witness ==
    /\ lastCall.made
    /\ CalledResult.steps.slots_built
    /\ Len(CalledOffer.guests) = 2
    /\ CalledOffer.guests[1].placement_index = CalledOffer.guests[2].placement_index
    /\ Len(CalledResult.steps.slots) = 3

\* The latest call of get_hotel_details_from_api: the entry it found, and its age.
HotelCallFoundEntry ==
    lastHotelCall.made /\ lastHotelCall.hotel_code \in DOMAIN lastHotelCall.cache_before
HotelCallEntry == lastHotelCall.cache_before[lastHotelCall.hotel_code]
HotelCallAge == lastHotelCall.at - HotelCallEntry[CachedAtKey]

\* C2 (Spec): in every turn that invokes the reservation tool, the session held
\* a selection at that moment and the booking_option_id and guarantee_code handed
\* to the tool are the session's selected_option_id and selected_guarantee_code,
\* whatever identifiers the language model's answer carried; hence with no
\* selection in the session no reservation is invoked.
C2_ReservationUsesSessionSelection ==
    lastTurn.reserve_invoked
    => /\ lastCall.made
       /\ Truthy(lastTurn.selected_option_id)
       /\ Truthy(lastTurn.selected_guarantee_code)
       /\ lastCall.params.booking_option_id = lastTurn.selected_option_id
       /\ lastCall.params.guarantee_code = lastTurn.selected_guarantee_code

\* C2 witness: the language model's answer named the first cached offer and a
\* guarantee of its own, the session had selected the second offer, and the
\* tool was invoked with the second offer and its guarantee.
C2_Witness ==
    /\ lastTurn.reserve_invoked
    /\ lastTurn.llm_booking_option_id = OptionId(1)
    /\ lastTurn.llm_guarantee_code = "GX"
    /\ lastTurn.selected_option_id = OptionId(2)
    /\ lastCall.params.booking_option_id = OptionId(2)
    /\ lastCall.params.guarantee_code # "GX"

\* C2, second case reached: the answer named an identifier no search produced.
C2_WitnessUnknownIdentifier ==
    /\ lastTurn.reserve_invoked
    /\ lastTurn.llm_booking_option_id = UnknownOptionId
    /\ lastCall.params.booking_option_id # UnknownOptionId

\* C6 (Spec): after a reservation call, successful or failed, by the bot or by an
\* MCP client, every offer the cache held when the call began is still in the
\* cache with the same content: a second read returns what the first returned.
C6_ReservationLeavesCacheAlone ==
    lastCall.made
    => \A id \in DOMAIN lastCall.cache_before :
          /\ CacheGet(BOOKING_OPTIONS_CACHE, id).hit
          /\ CacheGet(BOOKING_OPTIONS_CACHE, id).value
                 = CacheGet(lastCall.cache_before, id).value

\* C6 witness: a reservation of a cached offer was confirmed by the provider and
\* the offer is still in the cache.
C6_Witness ==
    /\ CalledHit
    /\ CalledResult.status = "confirmed"
    /\ CalledId \in DOMAIN BOOKING_OPTIONS_CACHE

\* C6, second case reached: the attempt failed at the provider.
C6_WitnessFailedAttempt ==
    /\ CalledHit
    /\ CalledResult.reserve_called
    /\ CalledResult.status = "error"
    /\ CalledId \in DOMAIN BOOKING_OPTIONS_CACHE

\* C7 (Spec): a reservation call with a booking_option_id that is not a key of
\* the cache returns status "error" for the reason that the option was not
\* found, raises nothing, makes no provider call, builds no payload and leaves
\* the cache as it was; a turn in which this happens ends without an exception
\* and with the session's action cleared, from where a search can be started.
C7_CacheMissIsRecoverableError ==
    (lastCall.made /\ ~CalledHit)
    => /\ CalledResult.status = "error"
       /\ CalledResult.error = "not_found"
       /\ CalledResult.booking_number = ""
       /\ CalledResult.raised = NoneVal
       /\ ~CalledResult.reserve_called
       /\ ~CalledResult.steps.payload
       /\ BOOKING_OPTIONS_CACHE = lastCall.cache_before
       /\ lastTurn.reserve_invoked
             => /\ lastTurn.exception = NoneVal
                /\ user_states[lastTurn.user].action = NoneVal

\* C7 witness: an MCP client named an unknown identifier while the cache held
\* offers.
C7_Witness ==
    /\ lastCall.made
    /\ ~CalledHit
    /\ CalledId = UnknownOptionId
    /\ DOMAIN lastCall.cache_before # {}
    /\ CalledResult.error = "not_found"

\* C8 (Spec), as claimed: when a turn that began in AwaitingBookingDetails
\* invokes the reservation tool and the tool refuses the guest list for its
\* length, the session's action is AwaitingBookingDetails when the turn ends.
C8_MismatchKeepsAwaitingBookingDetails ==
    (/\ lastTurn.reserve_invoked
     /\ lastTurn.action_before = USER_ACTION_AWAITING_BOOKING_DETAILS
     /\ CalledResult.error = "guest_count_mismatch")
    => user_states[lastTurn.user].action = USER_ACTION_AWAITING_BOOKING_DETAILS

\* C8, the state the code reaches: such a turn ended without an exception and
\* the session's action is cleared (telegram_bot.py:654).
C8_MismatchClearsAction ==
    /\ lastTurn.reserve_invoked
    /\ lastTurn.action_before = USER_ACTION_AWAITING_BOOKING_DETAILS
    /\ CalledResult.error = "guest_count_mismatch"
    /\ lastTurn.exception = NoneVal
    /\ user_states[lastTurn.user].action = NoneVal

\* C9 (HotelSpec): a call that finds an entry for its hotel code (stored by an
\* earlier successful fetch, never invalidated since) less than one hour after
\* the entry's timestamp makes no provider call, returns the stored metadata
\* (every stored field, absent Optional fields as None), and leaves the cache
\* as it was.
C9_FreshEntryServedWithoutFetch ==
    (HotelCallFoundEntry /\ HotelCallAge < 3600)
    => /\ lastHotelCall.result.fetch_calls = 0
       /\ lastHotelCall.result.returned
       /\ \A k \in DOMAIN HotelCallEntry \ {CachedAtKey} :
             lastHotelCall.result.value[k] = HotelCallEntry[k]
       /\ \A k \in DOMAIN lastHotelCall.result.value :
             k \notin DOMAIN HotelCallEntry => lastHotelCall.result.value[k] = NoneVal
       /\ HOTEL_INFO_CACHE = lastHotelCall.cache_before

\* C9 witness: a second call for a hotel 3599 seconds after its entry was stored,
\* answered from the cache while the provider would have failed.
C9_Witness ==
    /\ HotelCallFoundEntry
    /\ HotelCallAge = 3599
    /\ lastHotelCall.outcome.kind = "api_exception"
    /\ lastHotelCall.result.returned
    /\ lastHotelCall.result.fetch_calls = 0

\* C10 (HotelSpec): a call that finds an entry aged one hour or more asks the
\* provider; what it returns is the provider's new answer, stored with the time
\* of the call, and when the provider fails or its answer is invalid the call
\* returns None and the expired entry is gone.  Every entry of the cache has a
\* retrieval timestamp, which is never in the future.
C10_ExpiredEntryNeverServed ==
    /\ \A h \in DOMAIN HOTEL_INFO_CACHE :
          /\ CachedAtKey \in DOMAIN HOTEL_INFO_CACHE[h]
          /\ HOTEL_INFO_CACHE[h][CachedAtKey] <= now
    /\ (HotelCallFoundEntry /\ HotelCallAge >= 3600)
       => /\ lastHotelCall.result.fetch_calls = 1
          /\ lastHotelCall.result.returned
             => /\ lastHotelCall.outcome.kind = "hotels"
                /\ \A k \in DOMAIN lastHotelCall.outcome.data :
                      k \in DOMAIN lastHotelCall.result.value
                      => lastHotelCall.result.value[k] = lastHotelCall.outcome.data[k]
                /\ lastHotelCall.hotel_code \in DOMAIN HOTEL_INFO_CACHE
                /\ HOTEL_INFO_CACHE[lastHotelCall.hotel_code][CachedAtKey] = lastHotelCall.at
          /\ ~lastHotelCall.result.returned
             => lastHotelCall.hotel_code \notin DOMAIN HOTEL_INFO_CACHE

\* C10 witness: an entry aged exactly one hour, the refetch fails, the call
\* returns None.
C10_Witness ==
    /\ HotelCallFoundEntry
    /\ HotelCallAge = 3600
    /\ lastHotelCall.outcome.kind = "api_exception"
    /\ ~lastHotelCall.result.returned
    /\ lastHotelCall.hotel_code \notin DOMAIN HOTEL_INFO_CACHE

\* C10 witness of the refetch: an expired entry replaced by a new answer.
C10_WitnessRefetched ==
    /\ HotelCallFoundEntry
    /\ HotelCallAge > 3600
    /\ lastHotelCall.result.returned
    /\ HOTEL_INFO_CACHE[lastHotelCall.hotel_code][CachedAtKey] = lastHotelCall.at

\* C11 (HotelOverlapSpec), as claimed: when a call of get_hotel_details_from_api
\* that asked the provider returns without a hotel (the answer failed validation,
\* carried no hotel, or the provider call failed), the cache holds no entry for
\* that hotel code at the moment of the return, also when calls for the same
\* code overlap at their awaits.
C11_FailedFetchLeavesNoEntry ==
    (lastHotelCall.made /\ lastHotelCall.result.fetch_calls = 1
        /\ ~lastHotelCall.result.returned)
    => lastHotelCall.hotel_code \notin DOMAIN lastHotelCall.result.cache

\* C11, the state the code reaches: a call returns a failure after an answer
\* that lacks the required name, and the cache holds an entry for its hotel
\* code, stored by an overlapping call while this one awaited.
C11_EntryPresentAtFailedReturn ==
    /\ lastHotelCall.made
    /\ lastHotelCall.result.fetch_calls = 1
    /\ ~lastHotelCall.result.returned
    /\ lastHotelCall.outcome.kind = "hotels"
    /\ lastHotelCall.hotel_code \notin DOMAIN lastHotelCall.cache_before
    /\ lastHotelCall.hotel_code \in DOMAIN lastHotelCall.result.cache

\* C11 without overlap (HotelSpec): calls that run one after the other leave no
\* entry behind a failed fetch.
C11_FailedFetchLeavesNoEntrySequential ==
    (lastHotelCall.made /\ lastHotelCall.result.fetch_calls = 1
        /\ ~lastHotelCall.result.returned)
    => lastHotelCall.hotel_code \notin DOMAIN HOTEL_INFO_CACHE

\* The turn just handled asked the language model once and was answered with
\* a directive that names one of the four tools, carries no clarification, and
\* has arguments the tool's parameter model refuses.
InvalidArgumentsTurn ==
    /\ lastTurn.handler # NoneVal
    /\ lastTurn.llm_calls = 1
    /\ lastTurn.llm_tool_name \in {ToolSearch, ToolCreate, ToolCancel, ToolHotelInfo}
    /\ lastTurn.llm_clarification = NoneVal
    /\ lastTurn.fields_failed # {}

\* C12 (Spec), as claimed: when the directive names one of the four tools and
\* its arguments fail validation, the tool is not executed in that turn, the
\* clarification names every field that failed, and the session ends the turn
\* in AwaitingBookingDetails for the reservation tool and AwaitingClarification
\* for the others.
C12_InvalidArgumentsNameEveryField ==
    InvalidArgumentsTurn
    => /\ lastTurn.tool_executed = NoneVal
       /\ lastTurn.fields_named = lastTurn.fields_failed
       /\ user_states[lastTurn.user].action =
              IF lastTurn.llm_tool_name = ToolCreate
              THEN USER_ACTION_AWAITING_BOOKING_DETAILS
              ELSE USER_ACTION_AWAITING_CLARIFICATION

\* C12, the state the code reaches: a reservation directive without arguments,
\* in a session with no action, is answered with a clarification that names no
\* field and leaves the session in AwaitingClarification (tools.py:770-775,
\* telegram_bot.py:360-372).
C12_NoArgumentsGenericClarification ==
    /\ InvalidArgumentsTurn
    /\ lastTurn.llm_tool_name = ToolCreate
    /\ lastTurn.action_before = NoneVal
    /\ lastTurn.messages = 1
    /\ lastTurn.fields_named = {}
    /\ user_states[lastTurn.user].action = USER_ACTION_AWAITING_CLARIFICATION

\* C12, the part the code keeps: such a turn never executes the tool, sends a
\* message, and ends in one of the three awaiting states.
C12_InvalidArgumentsNeverExecute ==
    InvalidArgumentsTurn
    => /\ lastTurn.tool_executed = NoneVal
       /\ lastTurn.messages >= 1
       /\ user_states[lastTurn.user].action \in
              {USER_ACTION_AWAITING_BOOKING_DETAILS, USER_ACTION_AWAITING_CLARIFICATION,
               USER_ACTION_AWAITING_OPTION_CHOICE}

\* The turn just handled is a text message, followed to its end.
TextTurn == lastTurn.handler = "text" /\ ~lastTurn.cut

\* C13 (Spec), as claimed: every text turn ends with at least one message sent
\* to the user, whatever the directive.
C13_EveryTextTurnSendsAMessage ==
    TextTurn => lastTurn.messages >= 1

\* C13, the state the code reaches: a text turn whose directive carries the
\* meta text in its clarification, in a session without hotel information,
\* is aborted by an AttributeError (telegram_bot.py:350) with nothing sent.
C13_SilentTurn ==
    /\ TextTurn
    /\ lastTurn.llm_clarification = "meta"
    /\ lastTurn.exception = "AttributeError"
    /\ lastTurn.messages = 0

\* C13, the part the code keeps: a text turn that no exception aborts sends at
\* least one message; one whose directive has neither a tool nor a clarification
\* text is not aborted and sends the fallback.
C13_FallbackSent ==
    TextTurn
    => /\ lastTurn.exception = NoneVal => lastTurn.messages >= 1
       /\ (/\ lastTurn.llm_calls = 1
           /\ lastTurn.llm_tool_name \in {NoneVal, "", "null"}
           /\ lastTurn.llm_clarification \in {NoneVal, "", "null"})
          => lastTurn.exception = NoneVal /\ lastTurn.messages = 1

\* The turn just handled executed the search operation and was not aborted.
SearchExecuted ==
    /\ lastTurn.handler # NoneVal
    /\ ~lastTurn.cut
    /\ lastTurn.tool_executed = ToolSearch
    /\ lastTurn.exception = NoneVal

C14_WitnessNoOffers ==
    /\ SearchExecuted
    /\ lastTurn.options_shown = 0
    /\ lastTurn.messages = 1
    /\ user_states[lastTurn.user].action = NoneVal

\* The turn just handled executed the reservation or the cancellation operation.
ReservationOrCancellationExecuted ==
    /\ lastTurn.handler # NoneVal
    /\ lastTurn.tool_executed \in {ToolCreate, ToolCancel}

\* C15 (Spec), as claimed: after a turn that executed the reservation or the
\* cancellation operation, from a directive, /cancelbooking or a cancel button,
\* the session's action is Idle, whether the operation succeeded or not.
C15_ExecutionReturnsToIdle ==
    ReservationOrCancellationExecuted
    => user_states[lastTurn.user].action = NoneVal

\* C15 restricted to the turns that no exception aborts.
C15_ExecutionReturnsToIdleUnlessAborted ==
    (ReservationOrCancellationExecuted /\ lastTurn.exception = NoneVal)
    => user_states[lastTurn.user].action = NoneVal

\* C15, the state the code reaches: the reservation was executed and the
\* provider confirmed it, the turn was then aborted by the TypeError of
\* telegram_bot.py:597, and the session's action is still the one it had.
C15_AbortedAfterReservation ==
    /\ ReservationOrCancellationExecuted
    /\ lastTurn.reserve_invoked
    /\ CalledResult.reserve_called
    /\ CalledResult.status = "confirmed"
    /\ lastTurn.exception = "TypeError"
    /\ lastTurn.messages = 0
    /\ user_states[lastTurn.user].action = USER_ACTION_AWAITING_BOOKING_DETAILS

\* The turn just handled is a text message received in AwaitingBookingDetails
\* and answered with a directive that has no tool and a clarification question.
QuestionWhileAwaitingBookingDetails ==
    /\ lastTurn.handler = "text"
    /\ lastTurn.action_before = USER_ACTION_AWAITING_BOOKING_DETAILS
    /\ lastTurn.llm_calls = 1
    /\ lastTurn.llm_tool_name \in {NoneVal, "null"}
    /\ lastTurn.llm_clarification = "q"

\* C16 (Spec), as claimed: in AwaitingBookingDetails, a turn whose directive has
\* no tool and a clarification question leaves the session in
\* AwaitingBookingDetails.
C16_QuestionKeepsAwaitingBookingDetails ==
    QuestionWhileAwaitingBookingDetails
    => user_states[lastTurn.user].action = USER_ACTION_AWAITING_BOOKING_DETAILS

\* C16, the state the code reaches: the question is sent and the session is
\* moved to AwaitingClarification (telegram_bot.py:367-370), with the selection
\* kept.
C16_QuestionMovesToAwaitingClarification ==
    /\ QuestionWhileAwaitingBookingDetails
    /\ lastTurn.exception = NoneVal
    /\ lastTurn.messages = 1
    /\ lastTurn.tool_executed = NoneVal
    /\ user_states[lastTurn.user].selected_option_id # NoneVal
    /\ user_states[lastTurn.user].action = USER_ACTION_AWAITING_CLARIFICATION

\* The turn just handled made a reservation that came back with a status that
\* is not a failure, or a cancellation that came back 'cancelled'.
CompletedBookingOrCancellation ==
    \/ /\ lastTurn.reserve_invoked
       /\ CalledResult.status \notin FailedReservationStatuses
    \/ lastTurn.cancel_status = "cancelled"

\* The session of the turn's user is Idle with no selection and no search
\* context.
SessionCleared ==
    /\ user_states[lastTurn.user].action = NoneVal
    /\ user_states[lastTurn.user].selected_option_id = NoneVal
    /\ user_states[lastTurn.user].selected_guarantee_code = NoneVal
    /\ user_states[lastTurn.user].context_check_in_date = NoneVal

\* C17 (Spec), as claimed: at the end of a turn in which a reservation
\* completed with a non-error status or a cancellation returned 'cancelled',
\* the session is Idle, the selection is null and the search context is unset.
C17_CompletionClearsSession ==
    CompletedBookingOrCancellation => SessionCleared

\* C17, the state the code reaches: the reservation is confirmed, the turn is
\* aborted at telegram_bot.py:597 before the resets of lines 651-654, and the
\* session keeps its selection and its action.
C17_SelectionSurvivesConfirmedReservation ==
    /\ lastTurn.reserve_invoked
    /\ CalledResult.status = "confirmed"
    /\ lastTurn.exception = "TypeError"
    /\ user_states[lastTurn.user].selected_option_id = lastTurn.selected_option_id
    /\ user_states[lastTurn.user].selected_guarantee_code # NoneVal
    /\ user_states[lastTurn.user].action # NoneVal

\* C17 restricted to the turns that no exception aborts.
C17_CompletionClearsSessionUnlessAborted ==
    (CompletedBookingOrCancellation /\ lastTurn.exception = NoneVal) => SessionCleared

\* The entries of a sequence without those equal to the entry before them.
RECURSIVE WithoutRepeats(_)
WithoutRepeats(entries) ==
    IF Len(entries) <= 1 THEN entries
    ELSE LET front == WithoutRepeats(SubSeq(entries, 1, Len(entries) - 1))
             last == entries[Len(entries)]
         IN  IF front[Len(front)] = last THEN front ELSE Append(front, last)

\* The n most recent entries of a sequence, all of them when it has fewer.
MostRecent(entries, n) ==
    SubSeq(entries, IF Len(entries) > n THEN Len(entries) - n + 1 ELSE 1, Len(entries))

\* The history is the most recent entries offered since the last /start, at
\* most LLM_DIALOG_HISTORY_LENGTH of them, repeats of the entry before left out.
HistoryIsMostRecent ==
    /\ Len(llm_dialog_turns) <= LLM_DIALOG_HISTORY_LENGTH
    /\ llm_dialog_turns = MostRecent(WithoutRepeats(offered), LLM_DIALOG_HISTORY_LENGTH)

\* C18 (HistorySpec), as claimed: after any sequence of turns the dialog
\* history holds at most LLM_DIALOG_HISTORY_LENGTH entries and is, in order,
\* the most recent entries appended since the last /start, an entry equal to
\* the one before it not being appended; the oldest entries are the ones
\* dropped.
C18_HistoryBoundedMostRecent == HistoryIsMostRecent

\* C18, the state the code reaches: with a history length of 0 nothing is ever
\* dropped (telegram_bot.py:143, current_turns[-0:] is the whole list).
C18_HistoryGrowsForLengthZero ==
    /\ LLM_DIALOG_HISTORY_LENGTH = 0
    /\ Len(llm_dialog_turns) = MaxOffered
    /\ llm_dialog_turns = offered

\* C18 for a history length of at least 1.
C18_HistoryBoundedForPositiveLength ==
    LLM_DIALOG_HISTORY_LENGTH >= 1 => HistoryIsMostRecent

\* The turn just handled is a text message whose request to the language model
\* was refused for rate limiting.
RateLimitedTurn ==
    /\ lastTurn.handler = "text"
    /\ lastTurn.llm_calls = 1
    /\ lastTurn.llm_api = "rate_limited"

\* C19 (Spec), as claimed: when the call of the language model fails because of
\* rate limiting, the rate-limit message is sent and the session's action is
\* left as it was; the generic technical-problem message is not sent.
C19_RateLimitHasItsOwnOutcome ==
    RateLimitedTurn
    => /\ lastTurn.message_kind = "rate_limit"
       /\ user_states[lastTurn.user].action = lastTurn.action_before

\* C19, the state the code reaches: the rate-limited request ends as every
\* other failure of the model does, with the generic message and the action
\* cleared.
C19_RateLimitTakesGenericPath ==
    /\ RateLimitedTurn
    /\ lastTurn.action_before = USER_ACTION_AWAITING_BOOKING_DETAILS
    /\ lastTurn.message_kind = "technical_problem"
    /\ lastTurn.messages = 1
    /\ user_states[lastTurn.user].action = NoneVal

\* C19, what the code keeps: a directive carrying _llm_rate_limit_exceeded_
\* gets the rate-limit message and leaves the action as it was, and every
\* failure of the model gets the generic message and clears the action.
C19_MarkerAndFailureOutcomes ==
    (lastTurn.handler = "text" /\ lastTurn.llm_calls = 1)
    => /\ lastTurn.message_kind = "rate_limit"
          => user_states[lastTurn.user].action = lastTurn.action_before
       /\ lastTurn.llm_api \in LlmFailures
          => /\ lastTurn.message_kind = "technical_problem"
             /\ user_states[lastTurn.user].action = NoneVal

\* C20 (ProviderFailureSpec), as claimed: for every failure of the provider
\* during a search, a reservation or a cancellation, two runs that differ only
\* in the provider's error text send the user the same message.
C20_MessageIndependentOfErrorText ==
    userMessages # <<>> => userMessages[1] = userMessages[2]

\* C20, the state the code reaches: a search failed by a network error, and the
\* two messages differ as the error texts do.
C20_MessageCarriesErrorText ==
    /\ userMessages # <<>>
    /\ providerFailure.operation = "search"
    /\ providerFailure.kind = "network"
    /\ providerFailure.error_texts[1] # providerFailure.error_texts[2]
    /\ userMessages[1] # userMessages[2]

\* C20, what the code keeps: the message for a reservation that failed by a
\* network error or by an HTTP status other than 400 does not depend on the
\* error text.
C20_ReservationMessageGenericUnless400 ==
    (/\ userMessages # <<>>
     /\ providerFailure.operation = "reservation"
     /\ providerFailure.status_code # "400"
     /\ providerFailure.kind # "embedded")
    => userMessages[1] = userMessages[2]

\* C21 (ClientSpec): for each of the four operations of the provider client, a
\* network or timeout failure, an HTTP 4xx/5xx status and a 200 answer whose
\* errors array is not empty all reach the caller as an ExelyApiException: no
\* operation returns with an errors array in its result, and no other
\* exception type leaves the client.
ProviderFailed(answer) ==
    \/ answer.transport = "RequestError"
    \/ answer.status_code # "200"
    \/ answer.errors # <<>>

C21_FailuresRaiseExelyApiException ==
    clientCall.made =>
        /\ ProviderFailed(clientCall.answer) =>
              /\ clientCall.result.outcome = "raised"
              /\ clientCall.result.exception = "ExelyApiException"
        /\ clientCall.result.outcome = "returned" => clientCall.result.errors = <<>>
        /\ clientCall.result.outcome = "raised" =>
              clientCall.result.exception = "ExelyApiException"

\* The hotel information, or the availability, is returned to the caller with
\* the errors array of a 200 answer in it.
C21_ReturnedWithErrors ==
    /\ clientCall.made
    /\ clientCall.operation \in {"get_hotel_info", "get_hotel_availability"}
    /\ clientCall.answer.status_code = "200"
    /\ clientCall.answer.errors # <<>>
    /\ clientCall.result.outcome = "returned"
    /\ clientCall.result.errors = clientCall.answer.errors

\* What holds: network failures and HTTP error statuses are raised as
\* ExelyApiException by all four operations, errors in a 200 answer by the
\* reservation and the cancellation (with status 400), and nothing else is
\* raised.
C21_NormalisedExceptEmbeddedErrorsOfReads ==
    clientCall.made =>
        /\ (clientCall.answer.transport = "RequestError"
            \/ clientCall.answer.status_code # "200") =>
              clientCall.result.exception = "ExelyApiException"
        /\ (clientCall.answer.errors # <<>> /\ clientCall.answer.status_code = "200"
            /\ clientCall.operation \in {"create_hotel_reservation",
                                         "cancel_hotel_reservation"}) =>
              /\ clientCall.result.exception = "ExelyApiException"
              /\ clientCall.result.status_code = "400"
        /\ clientCall.result.outcome = "raised" =>
              clientCall.result.exception = "ExelyApiException"

\* C22 (MapperSpec): for every offer the availability schema admits (guest
\* groups with count 0, groups that reference an unknown placement and empty
\* placement lists included) and every guest list, the reservation tool
\* returns a structured CreateReservationResult: no exception leaves the
\* mapper.
C22_MapperReturnsStructuredResult ==
    lastCall.made =>
        /\ CalledResult.raised = NoneVal
        /\ CalledResult.status \in {"confirmed", "error", "error_unexpected_response"}

\* A call whose guest list has the length of the offer's capacity, on an offer
\* with a guest group of count 0 alone on its placement, leaves the mapper with
\* pydantic's ValidationError, before any provider call.
C22_ValidationErrorLeavesMapper ==
    /\ CalledHit
    /\ Len(CalledGuests) = DeclaredCapacity(CalledOffer.guests)
    /\ \E i \in 1..Len(CalledOffer.guests) : CalledOffer.guests[i].count = 0
    /\ CalledResult.raised = "ValidationError"
    /\ CalledResult.status = NoneVal
    /\ ~CalledResult.reserve_called

\* What holds: the mapper raises only when a guest-count entry of the payload
\* would have the count 0; every other call returns a structured result.
C22_StructuredUnlessZeroCountEntry ==
    lastCall.made =>
        \/ /\ CalledResult.raised = NoneVal
           /\ CalledResult.status \in {"confirmed", "error", "error_unexpected_response"}
        \/ /\ CalledResult.raised = "ValidationError"
           /\ \E i \in 1..Len(CalledResult.steps.guest_counts) :
                  CalledResult.steps.guest_counts[i].count = 0

\* The cached offer of the latest call lacks the data the mapper needs: no room
\* type, no placements in its first room type, no guest groups, or a guest
\* group whose placement index is the index of none of the placements.
OfferLacksPlacementData ==
    /\ CalledHit
    /\ \/ CalledOffer.room_types = <<>>
       \/ CalledOffer.room_types[1].placements = <<>>
       \/ CalledOffer.guests = <<>>
       \/ \E i \in 1..Len(CalledOffer.guests) :
              \A j \in 1..Len(CalledPlacements) :
                  CalledPlacements[j].index # CalledOffer.guests[i].placement_index

\* The error results the mapper returns for an offer it cannot map
\* (tools.py:380-385, 390-392, 400-401, 404-408).
DataIntegrityErrors ==
    {"guest_count_mismatch", "missing_placements", "missing_guests", "placement_lookup"}

\* C23 (MapperSpec): when the cached offer has no room type, no placements in
\* its first room type, no guest groups, or a guest group whose placement index
\* matches none of the offer's placements, the mapper returns an error result
\* of the data-integrity kind (status "error", empty booking number, nothing
\* raised, no payload built) and the provider's reserve call is not made.
C23_MissingPlacementDataIsErrorResult ==
    OfferLacksPlacementData =>
        /\ CalledResult.raised = NoneVal
        /\ CalledResult.status = "error"
        /\ CalledResult.booking_number = ""
        /\ CalledResult.error \in DataIntegrityErrors
        /\ ~CalledResult.steps.payload
        /\ ~CalledResult.reserve_called

\* C23 witness: a guest list of the offer's capacity on an offer one of whose
\* guest groups references a placement index the offer does not have.
C23_Witness ==
    /\ OfferLacksPlacementData
    /\ Len(CalledGuests) = DeclaredCapacity(CalledOffer.guests)
    /\ Len(CalledGuests) > 0
    /\ CalledOffer.room_types # <<>>
    /\ CalledPlacements # <<>>
    /\ CalledResult.error = "placement_lookup"

\* C23 witness: an offer without guest groups, called without guests.
C23_WitnessNoGuestGroups ==
    /\ OfferLacksPlacementData
    /\ CalledOffer.guests = <<>>
    /\ CalledOffer.room_types # <<>>
    /\ CalledPlacements # <<>>
    /\ CalledResult.error = "missing_guests"

\* C23 witness: an offer without placements.
C23_WitnessNoPlacements ==
    /\ OfferLacksPlacementData
    /\ Len(CalledGuests) = DeclaredCapacity(CalledOffer.guests)
    /\ CalledResult.error = "missing_placements"

\* The guest-count entry of the payload for the placement the i-th guest of
\* the latest call is bound to.
SlotEntryOfGuest(i) ==
    LET api == CalledResult.steps.guest_counts
    IN  api[CHOOSE n \in 1..Len(api) :
                api[n].placement_index = CalledResult.steps.guests[i].placement_index]

\* C24 (GuestAgeSpec): in every reservation payload, each supplied guest is
\* bound to a slot whose age qualification matches the guest: a guest flagged
\* is_child only to a placement whose aggregated age-qualifying code is child
\* (with the guest's age where the payload sends one), a guest not flagged
\* only to an adult-qualified placement.
C24_GuestsBoundByAgeQualification ==
    (lastCall.made /\ CalledResult.steps.payload) =>
        \A i \in 1..Len(CalledGuests) :
            /\ CalledGuests[i].is_child
                  <=> IsChildCode(SlotEntryOfGuest(i).age_qualifying_code)
            /\ (CalledGuests[i].is_child /\ SlotEntryOfGuest(i).age # {})
                  => SlotEntryOfGuest(i).age = CalledGuests[i].age

\* The payload sent to the provider binds an adult guest to a child-qualified
\* placement and a child to an adult-qualified one.
C24_AdultOnChildSlot ==
    /\ lastCall.made
    /\ CalledResult.steps.payload
    /\ CalledResult.reserve_called
    /\ CalledResult.status = "confirmed"
    /\ \E i, j \in 1..Len(CalledGuests) :
          /\ ~CalledGuests[i].is_child
          /\ IsChildCode(SlotEntryOfGuest(i).age_qualifying_code)
          /\ CalledGuests[j].is_child
          /\ ~IsChildCode(SlotEntryOfGuest(j).age_qualifying_code)

RECURSIVE CountsReferencing(_, _, _)
\* The sum of the counts of the guest groups gs that reference the placement
\* at position n of pls: the first placement with the group's index.
CountsReferencing(gs, pls, n) ==
    IF gs = <<>> THEN 0
    ELSE LET hits == {i \in 1..Len(pls) : pls[i].index = Head(gs).placement_index}
         IN  (IF hits # {} /\ n = Min(hits) THEN Head(gs).count ELSE 0)
             + CountsReferencing(Tail(gs), pls, n)

RECURSIVE EntryCounts(_)
\* The sum of the counts of the guest-count entries of a payload.
EntryCounts(api) == IF api = <<>> THEN 0 ELSE Head(api).count + EntryCounts(Tail(api))

\* The guest-count entries of the payload agree with the offer's guest groups.
EntriesSumTheirGroups ==
    LET st == CalledResult.steps
        entries(n) == {e \in 1..Len(st.guest_counts) :
                          st.guest_counts[e].placement_index = n}
    IN  /\ \A n \in 1..Len(st.rt_placements) :
              /\ Cardinality(entries(n)) <= 1
              /\ \A e \in entries(n) :
                    st.guest_counts[e].count
                        = CountsReferencing(CalledOffer.guests, CalledPlacements, n)
              /\ entries(n) = {}
                    => CountsReferencing(CalledOffer.guests, CalledPlacements, n) = 0
        /\ EntryCounts(st.guest_counts) = DeclaredCapacity(CalledOffer.guests)

\* C25 (MapperSpec): in every payload, the count of the guest-count entry of a
\* new placement index is the sum of the counts of exactly the offer's guest
\* groups that reference the original placement re-indexed to it, a new index
\* has at most one entry, and the counts of all entries sum to the offer's
\* capacity.
C25_EntryCountsSumTheirGroups ==
    (lastCall.made /\ CalledResult.steps.payload) => EntriesSumTheirGroups

\* Two placements share their code; the guests of the first are counted under
\* the new index of the second, and the payload is sent.
C25_GroupCountedUnderOtherPlacement ==
    /\ lastCall.made
    /\ CalledResult.steps.payload
    /\ CalledResult.reserve_called
    /\ Len(CalledPlacements) = 2
    /\ CalledPlacements[1].code = CalledPlacements[2].code
    /\ CalledPlacements[1].index # CalledPlacements[2].index
    /\ CountsReferencing(CalledOffer.guests, CalledPlacements, 1) > 0
    /\ \A e \in 1..Len(CalledResult.steps.guest_counts) :
          CalledResult.steps.guest_counts[e].placement_index = 2
    /\ EntryCounts(CalledResult.steps.guest_counts)
          > CountsReferencing(CalledOffer.guests, CalledPlacements, 2)

\* What holds: the entries sum their groups in every payload of an offer whose
\* placement codes are pairwise distinct.
C25_EntryCountsSumTheirGroupsForDistinctCodes ==
    (/\ lastCall.made
     /\ CalledResult.steps.payload
     /\ \A i, j \in 1..Len(CalledPlacements) :
            CalledPlacements[i].code = CalledPlacements[j].code => i = j)
    => EntriesSumTheirGroups

RECURSIVE AgesAggregatedUnder(_, _, _, _)
\* The ages of the child guests of the groups gs that the mapper aggregates
\* under the new placement index n, one age per guest, in offer order.
AgesAggregatedUnder(gs, pls, idx_map, n) ==
    IF gs = <<>> THEN <<>>
    ELSE LET gc == Head(gs)
             here == idx_map[pls[target_pp_avail_for_gc(pls, gc)].code] = n
         IN  (IF here /\ gc.age # {}
              THEN Repeat(CHOOSE a \in gc.age : TRUE, gc.count) ELSE <<>>)
             \o AgesAggregatedUnder(Tail(gs), pls, idx_map, n)

\* C26 (MapperSpec): in every payload, when the guests aggregated under a
\* child-qualified new placement index carry differing ages, the age sent for
\* the index is the age of the first of them in offer order and the warning
\* of the approximation is emitted in the same invocation; when their ages are
\* all equal, that age is sent without a warning; for an index that is not
\* child-qualified no age is sent.
C26_FirstChildAgeSentWithWarning ==
    (lastCall.made /\ CalledResult.steps.payload) =>
        \A e \in 1..Len(CalledResult.steps.guest_counts) :
            LET entry == CalledResult.steps.guest_counts[e]
                ages == AgesAggregatedUnder(CalledOffer.guests, CalledPlacements,
                                            CalledResult.steps.idx_map,
                                            entry.placement_index)
                differing == Cardinality(SeqRange(ages)) > 1
            IN  /\ (IsChildCode(entry.age_qualifying_code) /\ differing)
                      => entry.age = {ages[1]} /\ entry.warned
                /\ (IsChildCode(entry.age_qualifying_code) /\ ages # <<>> /\ ~differing)
                      => entry.age = {ages[1]} /\ ~entry.warned
                /\ ~IsChildCode(entry.age_qualifying_code)
                      => entry.age = {} /\ ~entry.warned

\* C26 witness: a child of 9 and a child of 5 on one placement, in this order;
\* the payload sends the age 9 for the placement, with the warning.
C26_Witness ==
    /\ lastCall.made
    /\ CalledResult.steps.payload
    /\ \E e \in 1..Len(CalledResult.steps.guest_counts) :
          LET entry == CalledResult.steps.guest_counts[e]
          IN  /\ AgesAggregatedUnder(CalledOffer.guests, CalledPlacements,
                                     CalledResult.steps.idx_map,
                                     entry.placement_index) = <<9, 5>>
              /\ entry.age = {9}
              /\ entry.warned

\* C26 witness: two children of 5 on one placement: the age 5, no warning.
C26_WitnessEqualAges ==
    /\ lastCall.made
    /\ CalledResult.steps.payload
    /\ \E e \in 1..Len(CalledResult.steps.guest_counts) :
          LET entry == CalledResult.steps.guest_counts[e]
          IN  /\ AgesAggregatedUnder(CalledOffer.guests, CalledPlacements,
                                     CalledResult.steps.idx_map,
                                     entry.placement_index) = <<5, 5>>
              /\ entry.age = {5}
              /\ ~entry.warned

\* The codes the provider gives in its answers: placements, rate plans,
\* guarantees, the hotel.
ProviderCodes == PlacementCodes \cup {"RP", "G1", "G2", DEFAULT_HOTEL_CODE}

\* The offers a step stores: the keys of the cache after it that were not keys
\* before.
StoredKeys == DOMAIN BOOKING_OPTIONS_CACHE' \ DOMAIN BOOKING_OPTIONS_CACHE

\* One step of the bot or of an MCP client keeps the identifiers of the cache
\* unique: what it stores goes under as many new keys as offers were stored,
\* none of them a sentinel or a provider code; every entry that was there
\* stays, with its offer; and after a search every option listed for the user
\* is a key of the cache, with the guarantees of the offer stored under it.
OptionIdsStayUnique ==
    /\ Cardinality(StoredKeys) = puts' - puts
    /\ StoredKeys \cap (SentinelOptionIds \cup ProviderCodes) = {}
    /\ \A id \in DOMAIN BOOKING_OPTIONS_CACHE :
          /\ id \in DOMAIN BOOKING_OPTIONS_CACHE'
          /\ BOOKING_OPTIONS_CACHE'[id] = BOOKING_OPTIONS_CACHE[id]
    /\ lastTurn'.tool_executed = ToolSearch =>
          LET listed == user_states'[lastTurn'.user].current_search_options_details
          IN  \A id \in DOMAIN listed :
                 /\ id \notin SentinelOptionIds
                 /\ id \in DOMAIN BOOKING_OPTIONS_CACHE'
                 /\ listed[id].available_guarantees
                        = BOOKING_OPTIONS_CACHE'[id].guarantees

\* The same, step by step: no step overwrites or removes an entry.
C27_EveryStepKeepsOptionIds == [][OptionIdsStayUnique]_vars

\* C27 (Spec): across any sequence of searches, reservations and
\* cancellations, every option_id under which a search stores an offer is
\* fresh (no key of the cache before the search, no sentinel id such as
\* "error" or "no_options", not derived from a provider code), no entry of the
\* cache is ever overwritten or removed, and every non-sentinel option_id a
\* search returns is a key of the cache that maps to its offer.  The cache
\* holds as many keys as offers were ever stored, so no store went to a key in
\* use and no key was removed.
C27_OptionIdsFreshAndKept ==
    /\ Cardinality(DOMAIN BOOKING_OPTIONS_CACHE) = puts
    /\ DOMAIN BOOKING_OPTIONS_CACHE \cap (SentinelOptionIds \cup ProviderCodes) = {}
    /\ lastTurn.tool_executed = ToolSearch =>
          LET listed == user_states[lastTurn.user].current_search_options_details
          IN  \A id \in DOMAIN listed :
                 /\ id \notin SentinelOptionIds
                 /\ id \in DOMAIN BOOKING_OPTIONS_CACHE
                 /\ listed[id].available_guarantees
                        = BOOKING_OPTIONS_CACHE[id].guarantees

\* C27 witness: a search has stored one more offer in a cache that held one
\* already, and listed it for the user.
C27_Witness ==
    /\ lastTurn.tool_executed = ToolSearch
    /\ lastTurn.options_shown = 1
    /\ Cardinality(DOMAIN BOOKING_OPTIONS_CACHE) = 2
    /\ puts = 2
    /\ DOMAIN user_states[lastTurn.user].current_search_options_details = {OptionId(2)}

(***************************************************************************)
(* C28, C29: the polling loop and the turn handler (PollingSpec)           *)
(***************************************************************************)
\* The handler of one user is suspended at an external call.
SuspendedAtExternalCall(chat) ==
    /\ dispatch.handler.chat = chat
    /\ dispatch.handler.at \in {"call_mcp_tool_orchestrator", "tool"}

\* Telegram holds a message of the user.
HasUpdate(chat) == \E i \in 1..Len(dispatch.updates) : dispatch.updates[i] = chat

\* C28: while the turn of one user is suspended at an external call (the
\* interpreter or the provider), the turn of a different user whose message is
\* waiting can start: the suspended call does not delay it.
C28_OtherUsersTurnStartsDuringSuspension ==
    \A chat \in ChatIds, other \in ChatIds :
        (other # chat /\ SuspendedAtExternalCall(chat) /\ HasUpdate(other))
            => ENABLED process_new_updates

\* The case of C28: one user's turn suspended, another user's message waiting.
C28_SuspendedWhileOtherWaits ==
    /\ SuspendedAtExternalCall("u1")
    /\ dispatch.handler.at = "tool"
    /\ HasUpdate("u2")
    /\ "u2" \notin dispatch.handled

\* What the code does instead: from the call of a handler to its return no
\* other turn starts or ends; the waiting message is taken after the return.
TurnsOneAtATime ==
    dispatch.handler # NoHandler =>
        /\ dispatch'.handler.chat \in {dispatch.handler.chat, NoneVal}
        /\ dispatch'.handled \subseteq dispatch.handled \cup {dispatch.handler.chat}
        /\ Len(dispatch'.updates) >= Len(dispatch.updates)
C28_TurnsRunOneAtATime == [][TurnsOneAtATime]_vars

\* C29: the handling of an inbound message ends by a decision of the handler,
\* after a number of re-interpretations the handler bounds itself, also when
\* the interpreter names get_hotel_public_info on every re-interpretation: it
\* is never the interpreter's recursion limit that ends it.
C29_ReinterpretationsBoundedByHandler == dispatch.ended # "RecursionError"

\* The case of C29: the interpreter named get_hotel_public_info on every
\* interpretation of one message, the hotel was found each time, and the
\* handling ended when the nested calls reached the recursion limit.
C29_EndedByRecursionLimit ==
    /\ dispatch.ended = "RecursionError"
    /\ dispatch.handler = NoHandler
    /\ dispatch.handled # {}

\* A re-interpretation in progress at the deepest nesting the limit allows.
C29_NestedToTheLimit ==
    /\ dispatch.handler.at = "tool"
    /\ dispatch.handler.tool = "get_hotel_public_info"
    /\ dispatch.handler.depth = RecursionLimit - 1

(***************************************************************************)
(* C30: searched guest count and reservation (SearchReserveSpec)           *)
(***************************************************************************)
\* A reservation of an offer the latest search returned.
ReservedSearchedOffer ==
    /\ lastSearch.made
    /\ lastCall.made
    /\ lastCall.params.booking_option_id \in lastSearch.option_ids

PassedGuestCountReconciliation == lastCall.result.error # "guest_count_mismatch"

\* C30: a reservation of an offer returned by a search for n guests passes the
\* guest-count reconciliation if and only if exactly n guest records are given.
C30_ReservableWithSearchedGuestCount ==
    ReservedSearchedOffer =>
        (PassedGuestCountReconciliation
            <=> Len(lastCall.params.guests) = requested_total_guests(lastSearch.params))

\* The case of C30: a search for one guest returned an offer for more, and the
\* reservation of it with one guest record is refused.
C30_SearchedCountRefused ==
    /\ ReservedSearchedOffer
    /\ requested_total_guests(lastSearch.params) = 1
    /\ Len(lastCall.params.guests) = 1
    /\ SumCounts(lastCall.cache_before[lastCall.params.booking_option_id].guests) > 1
    /\ lastCall.result.status = "error"
    /\ lastCall.result.error = "guest_count_mismatch"
    /\ ~lastCall.result.reserve_called

\* What the code does: the search keeps the offers with room for at least n
\* guests, and the reconciliation passes exactly for the capacity of the offer.
C30_ReservableWithCapacityAtLeastSearched ==
    ReservedSearchedOffer =>
        LET capacity ==
                SumCounts(lastCall.cache_before[lastCall.params.booking_option_id].guests)
        IN  /\ capacity >= requested_total_guests(lastSearch.params)
            /\ PassedGuestCountReconciliation <=> Len(lastCall.params.guests) = capacity

(***************************************************************************)
(* C31..C36, C39: the session at the end of a turn (Spec)                  *)
(***************************************************************************)
\* The offers the session of a user holds as displayed.
DisplayedOptions(u) == user_states[u].current_search_options_details

\* C31: whenever the action of a session is awaiting_option_choice, its
\* current_search_options_details holds the offers displayed with a booking
\* button by the user's most recent search, keyed by their identifiers in the
\* offer cache, and at least one.
C31_AwaitingOptionChoiceHoldsDisplayedOffers ==
    \A u \in DOMAIN user_states :
        user_states[u].action = USER_ACTION_AWAITING_OPTION_CHOICE =>
            /\ DisplayedOptions(u) # EmptyDict
            /\ \A id \in DOMAIN DisplayedOptions(u) :
                  /\ id \in DOMAIN BOOKING_OPTIONS_CACHE
                  /\ DisplayedOptions(u)[id].available_guarantees
                        = BOOKING_OPTIONS_CACHE[id].guarantees
            /\ (lastTurn.user = u /\ lastTurn.tool_executed = ToolSearch) =>
                  Cardinality(DOMAIN DisplayedOptions(u)) = lastTurn.options_shown

\* The case of C31: a turn in which the interpreter named the reservation tool
\* left the session awaiting an option choice with no offer displayed.
C31_AwaitingChoiceOfNothing ==
    /\ lastTurn.handler # NoneVal
    /\ lastTurn.llm_tool_name = ToolCreate
    /\ user_states[lastTurn.user].action = USER_ACTION_AWAITING_OPTION_CHOICE
    /\ DisplayedOptions(lastTurn.user) = EmptyDict

\* After a search that displayed offers the session does hold them.
C31_SearchStoresDisplayedOffers ==
    (lastTurn.tool_executed = ToolSearch
     /\ user_states[lastTurn.user].action = USER_ACTION_AWAITING_OPTION_CHOICE) =>
        /\ DisplayedOptions(lastTurn.user) # EmptyDict
        /\ Cardinality(DOMAIN DisplayedOptions(lastTurn.user)) = lastTurn.options_shown
        /\ DOMAIN DisplayedOptions(lastTurn.user) \subseteq DOMAIN BOOKING_OPTIONS_CACHE

\* Idle is action None (telegram_bot.py:94).
SessionActions ==
    {NoneVal, USER_ACTION_AWAITING_CLARIFICATION, USER_ACTION_AWAITING_OPTION_CHOICE,
     USER_ACTION_AWAITING_BOOKING_DETAILS}

\* C32: a session is created idle, and at the end of every turn its action is
\* one of idle, awaiting clarification, awaiting option choice and awaiting
\* booking details: the markers 'start_command' and 'findhotel_command' do not
\* outlive the turn that set them.
C32_ActionIsOneOfFourStates ==
    \A u \in DOMAIN user_states : user_states[u].action \in SessionActions

\* The case of C32: the turn of /start ended with the rate-limit message
\* (telegram_bot.py:319-324), by a return of the handler, and the marker stayed
\* in the session.
C32_StartMarkerLeft ==
    /\ lastTurn.handler = "start"
    /\ ~lastTurn.cut
    /\ lastTurn.exception = NoneVal
    /\ lastTurn.message_kind = "rate_limit"
    /\ user_states[lastTurn.user].action = "start_command"

\* The same after a turn of /start ended by an exception the handler does not
\* catch.
C32_StartMarkerLeftByException ==
    /\ lastTurn.handler = "start"
    /\ lastTurn.exception # NoneVal
    /\ user_states[lastTurn.user].action = "start_command"

\* A later turn of the same user began with the marker as the session's action.
C32_StartMarkerSeenByNextTurn ==
    /\ lastTurn.handler = "text"
    /\ lastTurn.action_before = "start_command"

\* Every other turn that ends by a return of the handler leaves one of the four
\* states, provided it did not begin with the marker left by an earlier turn.
C32_ActionIsOneOfFourStatesOtherwise ==
    (/\ lastTurn.handler # NoneVal
     /\ lastTurn.action_before \in SessionActions
     /\ ~lastTurn.cut
     /\ lastTurn.exception = NoneVal
     /\ lastTurn.message_kind # "rate_limit") =>
        user_states[lastTurn.user].action \in SessionActions

\* C33: whenever the action of a session is awaiting_booking_details_llm, an
\* offer has been picked: selected_option_id and selected_guarantee_code are
\* both set.
C33_AwaitingBookingDetailsHasSelection ==
    \A u \in DOMAIN user_states :
        user_states[u].action = USER_ACTION_AWAITING_BOOKING_DETAILS =>
            /\ user_states[u].selected_option_id # NoneVal
            /\ user_states[u].selected_guarantee_code # NoneVal

\* The case of C33: a text turn ended awaiting booking details in a session
\* that holds no selection.
C33_AwaitingDetailsOfNothing ==
    /\ lastTurn.handler = "text"
    /\ ~lastTurn.cut
    /\ lastTurn.exception = NoneVal
    /\ user_states[lastTurn.user].action = USER_ACTION_AWAITING_BOOKING_DETAILS
    /\ user_states[lastTurn.user].selected_option_id = NoneVal
    /\ user_states[lastTurn.user].selected_guarantee_code = NoneVal

\* The turn just handled is /start or /help, it ended by a return of the
\* handler and executed no tool after the reset.
StartTurnWithoutTool ==
    /\ lastTurn.handler = "start"
    /\ ~lastTurn.cut
    /\ lastTurn.exception = NoneVal
    /\ lastTurn.tool_executed = NoneVal

\* /start unsets the search context, the customer context and the hotel context.
SearchContextUnset(state) ==
    /\ state.context_check_in_date = NoneVal
    /\ state.context_customer_info = NoneVal
    /\ state.context_hotel_info = NoneVal

\* C34: after /start or /help the whole context of the user is reset: the
\* search, customer and hotel contexts are unset and no offer remains selected
\* or selectable (selected_option_id, selected_guarantee_code and the displayed
\* options of an earlier search are cleared).
C34_StartResetsEntireContext ==
    StartTurnWithoutTool =>
        /\ SearchContextUnset(user_states[lastTurn.user])
        /\ user_states[lastTurn.user].selected_option_id = NoneVal
        /\ user_states[lastTurn.user].selected_guarantee_code = NoneVal
        /\ DisplayedOptions(lastTurn.user) = EmptyDict

\* The case of C34: after /start the offer picked before is still selected and
\* the offers of the earlier search can still be picked.
C34_SelectionSurvivesStart ==
    /\ StartTurnWithoutTool
    /\ user_states[lastTurn.user].selected_option_id # NoneVal
    /\ user_states[lastTurn.user].selected_guarantee_code # NoneVal
    /\ user_states[lastTurn.user].selected_option_id \in DOMAIN DisplayedOptions(lastTurn.user)

\* What /start does reset.
C34_StartResetsSearchContext ==
    StartTurnWithoutTool => SearchContextUnset(user_states[lastTurn.user])

C35_WitnessFailedSearch ==
    /\ lastTurn.tool_executed = ToolSearch
    /\ lastTurn.options_shown = 0
    /\ BOOKING_OPTIONS_CACHE # EmptyDict
    /\ DisplayedOptions(lastTurn.user) = EmptyDict
    /\ user_states[lastTurn.user].selected_option_id = NoneVal

\* C35 witness: the button of an offer that is not displayed was pressed by a
\* user whose cache entry for it exists, and nothing is selected.
C35_WitnessStaleButton ==
    /\ lastTurn.handler = "bookopt"
    /\ lastTurn.llm_calls = 0
    /\ BOOKING_OPTIONS_CACHE # EmptyDict
    /\ user_states[lastTurn.user].selected_option_id = NoneVal

\* C36: at the end of every turn selected_option_id is unset exactly when
\* selected_guarantee_code is unset, and when both are set the guarantee code
\* is the first of the acceptable guarantee codes of the selected offer; an
\* offer without an acceptable guarantee code is never left selected.
C36_SelectionAndGuaranteeSetTogether ==
    \A u \in DOMAIN user_states :
        LET state == user_states[u]
        IN  /\ (state.selected_option_id = NoneVal)
                  <=> (state.selected_guarantee_code = NoneVal)
            /\ state.selected_option_id # NoneVal =>
                  /\ state.selected_option_id \in DOMAIN BOOKING_OPTIONS_CACHE
                  /\ BOOKING_OPTIONS_CACHE[state.selected_option_id].guarantees # <<>>
                  /\ state.selected_guarantee_code
                        = BOOKING_OPTIONS_CACHE[state.selected_option_id].guarantees[1]

\* C36 witness: an offer is selected with its first guarantee code.
C36_Witness ==
    /\ lastTurn.handler = "bookopt"
    /\ user_states[lastTurn.user].selected_option_id # NoneVal
    /\ user_states[lastTurn.user].selected_guarantee_code
          = BOOKING_OPTIONS_CACHE[user_states[lastTurn.user].selected_option_id].guarantees[1]

\* C36 witness: the button of a displayed offer without a guarantee code was
\* pressed, and nothing is selected.
C36_WitnessWithoutGuarantee ==
    /\ lastTurn.handler = "bookopt"
    /\ lastTurn.llm_calls = 0
    /\ lastTurn.action_before = USER_ACTION_AWAITING_OPTION_CHOICE
    /\ \E id \in DOMAIN BOOKING_OPTIONS_CACHE : BOOKING_OPTIONS_CACHE[id].guarantees = <<>>
    /\ user_states[lastTurn.user].selected_option_id = NoneVal
    /\ user_states[lastTurn.user].selected_guarantee_code = NoneVal

\* C37: every provider client a tool function makes is closed before the tool
\* function returns: the latest tool call closed as many clients as it made,
\* and no client is open between two tool calls.
C37_EveryClientClosedBeforeReturn ==
    /\ clients.call.closed = clients.call.opened
    /\ clients.open = 0

\* The early returns of the tool functions that come before any provider call.
ValidationPaths ==
    {"invalid_dates", "not_found", "guest_count_mismatch", "missing_placements"}

\* C37 witness: a search with invalid dates has returned and its client is open.
C37_ClientLeftOpenByInvalidDates ==
    /\ clients.call.tool = ToolSearch
    /\ clients.call.path = "invalid_dates"
    /\ clients.call.closed < clients.call.opened
    /\ clients.open > 0

\* C37: a reservation refused for an unknown offer, for its guest count or for
\* missing placement data has returned and its client is open.
C37_ClientLeftOpenByReservation(path) ==
    /\ clients.call.tool = ToolCreate
    /\ clients.call.path = path
    /\ clients.call.closed = 0
    /\ clients.open > 0
C37_ClientLeftOpenByOfferNotFound == C37_ClientLeftOpenByReservation("not_found")
C37_ClientLeftOpenByGuestCountMismatch ==
    C37_ClientLeftOpenByReservation("guest_count_mismatch")
C37_ClientLeftOpenByMissingPlacements ==
    C37_ClientLeftOpenByReservation("missing_placements")

\* C37, the part that holds: a tool call that did not return from a validation
\* closed every client it made (success, provider error, cancellation, hotel
\* details).
C37_ClientsClosedAroundProviderCalls ==
    (clients.call.tool # NoneVal /\ clients.call.path \notin ValidationPaths
        /\ clients.call.tool # ToolCreate)
    => clients.call.closed = clients.call.opened

\* C37: a reservation closes its client exactly when it came to the provider
\* call.
C37_ReservationClosesAtProviderCallOnly ==
    clients.call.tool = ToolCreate
    => (clients.call.closed = 1
           <=> clients.call.path \in {"confirmed", "api", "error_unexpected_response"})

\* The language the returned metadata was fetched in: the provider's answer
\* carries it in the hotel's name (HotelInfoRaw).
ReturnedLanguage == lastHotelCall.result.value.name

\* C38: the metadata get_hotel_details_from_api(hotel_code, language) returns
\* was fetched for that same language.
C38_ReturnedMetadataInRequestedLanguage ==
    (lastHotelCall.made /\ lastHotelCall.result.returned)
    => ReturnedLanguage = lastHotelCall.language

\* C38 witness: a fresh entry fetched in one language is returned, without a
\* fetch, to a call that asks for the same hotel in another language.
C38_EntryServedInOtherLanguage ==
    /\ lastHotelCall.made
    /\ lastHotelCall.result.returned
    /\ lastHotelCall.result.fetch_calls = 0
    /\ lastHotelCall.hotel_code \in DOMAIN lastHotelCall.cache_before
    /\ lastHotelCall.cache_before[lastHotelCall.hotel_code].name # lastHotelCall.language
    /\ ReturnedLanguage # lastHotelCall.language

\* C38, the part that holds: metadata returned after a fetch is in the
\* language asked for.
C38_FetchedMetadataInRequestedLanguage ==
    (lastHotelCall.made /\ lastHotelCall.result.returned
        /\ lastHotelCall.result.fetch_calls = 1)
    => ReturnedLanguage = lastHotelCall.language

\* A turn of the text handler whose only directive carries a clarification
\* text: the interpreter answered once, with a directive (no failure of the
\* interpreter), and the text is not the word "null" the handler reads as no
\* text (telegram_bot.py:360).
ClarificationTurn ==
    /\ lastTurn.handler = "text"
    /\ ~lastTurn.cut
    /\ lastTurn.llm_calls = 1
    /\ lastTurn.message_kind = NoneVal
    /\ Truthy(lastTurn.llm_clarification)
    /\ lastTurn.llm_clarification # "null"

\* The tool the directive names when it reaches the handler: the orchestrator
\* takes the tool out of a directive whose arguments are empty (tools.py:769-774;
\* for a reservation, empty once the identifiers are deleted), which shows in
\* the required fields that are absent.
DirectiveToolName ==
    IF \/ /\ lastTurn.llm_tool_name = ToolCreate
          /\ {"guests", "customer"} \subseteq lastTurn.fields_failed
       \/ /\ lastTurn.llm_tool_name \in {ToolSearch, ToolCancel}
          /\ RequiredFields(lastTurn.llm_tool_name) \subseteq lastTurn.fields_failed
    THEN NoneVal
    ELSE lastTurn.llm_tool_name

\* What the turn of a clarification comes to: no tool is executed, one message
\* is sent, and the action follows from the tool named or from the action the
\* turn began with.
ClarificationDecidesTurn ==
    /\ lastTurn.tool_executed = NoneVal
    /\ ~lastTurn.reserve_invoked
    /\ lastTurn.exception = NoneVal
    /\ lastTurn.messages = 1
    /\ user_states[lastTurn.user].action
          = ActionAfterClarification(DirectiveToolName, lastTurn.action_before)

\* C39: when the directive carries a non-empty clarification text, no domain
\* operation is executed in the turn, the clarification is sent, and the next
\* action is AwaitingBookingDetails for the reservation tool, AwaitingClarification
\* for the search tool, and with no such tool AwaitingBookingDetails from
\* AwaitingOptionChoice and AwaitingClarification from anything else.
C39_ClarificationEndsTurnWithoutOperation ==
    ClarificationTurn => ClarificationDecidesTurn

\* C39 witness: the interpreter's meta-instruction comes with no tool while the
\* user is choosing an offer; the greeting is sent in its place and the action
\* becomes AwaitingClarification.
C39_MetaTextLeavesOptionChoice ==
    /\ ClarificationTurn
    /\ lastTurn.llm_clarification = "meta"
    /\ NoTool(lastTurn.llm_tool_name)
    /\ lastTurn.action_before = USER_ACTION_AWAITING_OPTION_CHOICE
    /\ lastTurn.exception = NoneVal
    /\ lastTurn.tool_executed = NoneVal
    /\ lastTurn.messages = 1
    /\ user_states[lastTurn.user].action = USER_ACTION_AWAITING_CLARIFICATION

\* C39: the meta-instruction comes before any hotel details were looked up;
\* the turn ends with AttributeError and nothing is sent.
C39_MetaTextRaises ==
    /\ ClarificationTurn
    /\ lastTurn.llm_clarification = "meta"
    /\ lastTurn.exception = "AttributeError"
    /\ lastTurn.messages = 0
    /\ user_states[lastTurn.user].action = lastTurn.action_before

\* C39, the part that holds: a clarification text other than the
\* meta-instruction ends the turn as stated, whatever tool the directive names.
C39_QuestionEndsTurnWithoutOperation ==
    (ClarificationTurn /\ lastTurn.llm_clarification # "meta")
    => ClarificationDecidesTurn

\* C39: a question that comes with the reservation tool: nothing is reserved.
C39_QuestionWithReservationTool ==
    /\ ClarificationTurn
    /\ lastTurn.llm_clarification = "q"
    /\ lastTurn.llm_tool_name = ToolCreate
    /\ DirectiveToolName = ToolCreate
    /\ ClarificationDecidesTurn
    /\ user_states[lastTurn.user].action = USER_ACTION_AWAITING_BOOKING_DETAILS

====
